---- MODULE Spec2Model ----
(***************************************************************************)
(* Model of msg-asst: the per-group message ring buffer                    *)
(* (entity/chat/buffer.go), the summary generator (logic/summary) and the  *)
(* bot's single-flight summary dispatch, interval timer and shutdown       *)
(* (logic/bot/bot.go).                                                     *)
(***************************************************************************)
EXTENDS Integers, Sequences, FiniteSets, TLC

VARIABLES
    cfg,              \* config.GetConfig(): the values the modelled code reads
    rooms,            \* MessageBuffer.rooms: group key -> roomData (haxmap)
    now,              \* wall clock in minutes; 0 is the zero time.Time
    stamp,            \* number of message timestamps handed out (rank of time.Now())
    hist,             \* history: per group, the messages accepted since the last Clear
    activeSummaries,  \* Bot.activeSummaries: keys of the sync.Map
    callers,          \* the message handler and the interval timer goroutine
    tasks,            \* the summary goroutines between `go func` and the deferred Delete
    wg,               \* Bot.wg counter
    ctxCancelled,     \* Bot.ctx is cancelled
    stopPc,           \* position of Bot.Stop
    ticker,           \* the interval timer's time.Ticker: next tick time, channel C full
    genCalls,         \* history: Generate invocations per group since its last claim
    mu,               \* roomData.mu of each group's room: the writer and the readers holding it
    failedAt,         \* history: per group, how much of hist its last attempt that ended in a
                      \* hard summarizer error had seen; 0 if none since the last Clear
    last              \* history: label of the step just taken

vars == <<cfg, rooms, now, stamp, hist, activeSummaries, callers, tasks,
          wg, ctxCancelled, stopPc, ticker, genCalls, mu, failedAt, last>>

----------------------------------------------------------------------------
(* Bounds and input sets *)

Groups == {"g1", "g2"}     \* the group keys
SpecGroups == {"g1"}       \* the groups whose messages reach the bot in Spec
BufGroups == {"g1"}        \* the groups Add is called for in SpecBuf
MaxStamp == 3              \* messages handled in a run of Spec
MaxBufStamp == 5           \* Add calls in a run of SpecBuf
MaxNow == 1                \* minutes the clock advances
NumSlots == 2              \* summary goroutines alive at once

Keyword == "@bot"          \* SummaryTrigger.Keyword

Slots == 1..NumSlots

Min(a, b) == IF a < b THEN a ELSE b
Range(s) == {s[i] : i \in DOMAIN s}

----------------------------------------------------------------------------
(* entity/chat: Message, Content, roomData *)

TextContent(t) == [Type |-> "text", Text |-> t]
ImageContent == [Type |-> "image", Text |-> ""]

\* the zero Message a fresh slot holds (make([]Message, cap))
ZeroMessage == [ID |-> "", Timestamp |-> 0, Sender |-> "", Content |-> [Type |-> "nil", Text |-> ""]]

Message(id, ts, sender, content) ==
    [ID |-> id, Timestamp |-> ts, Sender |-> sender, Content |-> content]

\* getOrCreateRoom's compute function
NewRoom(cap) ==
    [messages |-> [i \in 0..(cap - 1) |-> ZeroMessage],
     writeIndex |-> 0,
     count |-> 0,
     capacity |-> cap,
     lastSummaryTime |-> 0,
     messageIDs |-> {}]

getOrCreateRoom_Resize(rs, g, cap) ==
    IF g \in DOMAIN rs /\ rs[g].capacity = cap THEN rs
    ELSE [x \in DOMAIN rs \cup {g} |-> IF x = g THEN NewRoom(cap) ELSE rs[x]]

\* haxmap GetOrCompute: the map after a lookup of key g
getOrCreateRoom(rs, g, cap) ==
    IF g \in DOMAIN rs THEN rs
    ELSE [x \in DOMAIN rs \cup {g} |-> IF x = g THEN NewRoom(cap) ELSE rs[x]]

\* Add, on the room's data, under room.mu.Lock
RoomAdd_NoDedup(room, msg) ==
    LET ids1 == IF room.count = room.capacity
                THEN room.messageIDs \ {room.messages[room.writeIndex].ID}
                ELSE room.messageIDs
    IN [room EXCEPT
          !.messages[room.writeIndex] = msg,
          !.messageIDs = ids1 \cup {msg.ID},
          !.writeIndex = (room.writeIndex + 1) % room.capacity,
          !.count = IF room.count < room.capacity THEN room.count + 1 ELSE room.count]

RoomAdd_Grow(room, msg) ==
    IF msg.ID \in room.messageIDs THEN room
    ELSE [room EXCEPT
          !.messages[room.writeIndex] = msg,
          !.messageIDs = room.messageIDs \cup {msg.ID},
          !.writeIndex = (room.writeIndex + 1) % room.capacity,
          !.count = room.count + 1]

RoomAdd_KeepEvictedId(room, msg) ==
    IF msg.ID \in room.messageIDs THEN room
    ELSE [room EXCEPT
          !.messages[room.writeIndex] = msg,
          !.messageIDs = room.messageIDs \cup {msg.ID},
          !.writeIndex = (room.writeIndex + 1) % room.capacity,
          !.count = IF room.count < room.capacity THEN room.count + 1 ELSE room.count]

RoomAdd(room, msg) ==
    IF msg.ID \in room.messageIDs THEN room
    ELSE LET ids1 == IF room.count = room.capacity
                     THEN room.messageIDs \ {room.messages[room.writeIndex].ID}
                     ELSE room.messageIDs
         IN [room EXCEPT
               !.messages[room.writeIndex] = msg,
               !.messageIDs = ids1 \cup {msg.ID},
               !.writeIndex = (room.writeIndex + 1) % room.capacity,
               !.count = IF room.count < room.capacity THEN room.count + 1 ELSE room.count]

\* MessageBuffer.Add: the map after Add(msg) for group g
Add(rs, g, msg, cap) ==
    LET rs1 == getOrCreateRoom(rs, g, cap)
    IN [rs1 EXCEPT ![g] = RoomAdd(rs1[g], msg)]

RoomClear_KeepCursor(room, t) ==
    [room EXCEPT !.count = 0, !.messageIDs = {}, !.lastSummaryTime = t]

\* Clear, on the room's data, under room.mu.Lock
RoomClear(room, t) ==
    [room EXCEPT !.writeIndex = 0, !.count = 0, !.messageIDs = {}, !.lastSummaryTime = t]

Clear_CreatesRoom(rs, g, t) ==
    [x \in DOMAIN rs \cup {g} |->
        IF x = g THEN RoomClear(IF g \in DOMAIN rs THEN rs[g] ELSE NewRoom(1), t)
        ELSE rs[x]]

\* MessageBuffer.Clear
Clear(rs, g, t) ==
    IF g \notin DOMAIN rs THEN rs
    ELSE [rs EXCEPT ![g] = RoomClear(rs[g], t)]

\* MessageBuffer.GetRoomTopics
GetRoomTopics_None(rs) == {}

GetRoomTopics(rs) == DOMAIN rs

ShouldSummarize_KeywordFirst(rs, g, triggeredByKeyword, c, t) ==
    IF g \notin DOMAIN rs THEN FALSE
    ELSE LET room == rs[g] IN
         IF triggeredByKeyword THEN TRUE
         ELSE IF room.count < c.MinMessagesForSummary THEN FALSE
         ELSE IF c.MessageCount > 0 /\ room.count >= c.MessageCount THEN TRUE
         ELSE IF c.IntervalMinutes > 0
                 /\ room.lastSummaryTime # 0
                 /\ t - room.lastSummaryTime >= c.IntervalMinutes THEN TRUE
         ELSE FALSE

ShouldSummarize_NoKeyword(rs, g, triggeredByKeyword, c, t) ==
    IF g \notin DOMAIN rs THEN FALSE
    ELSE LET room == rs[g] IN
         IF room.count < c.MinMessagesForSummary THEN FALSE
         ELSE IF c.MessageCount > 0 /\ room.count >= c.MessageCount THEN TRUE
         ELSE IF c.IntervalMinutes > 0
                 /\ room.lastSummaryTime # 0
                 /\ t - room.lastSummaryTime >= c.IntervalMinutes THEN TRUE
         ELSE FALSE

ShouldSummarize_VolumeOff(rs, g, triggeredByKeyword, c, t) ==
    IF g \notin DOMAIN rs THEN FALSE
    ELSE LET room == rs[g] IN
         IF room.count < c.MinMessagesForSummary THEN FALSE
         ELSE IF triggeredByKeyword THEN TRUE
         ELSE IF c.IntervalMinutes > 0
                 /\ room.lastSummaryTime # 0
                 /\ t - room.lastSummaryTime >= c.IntervalMinutes THEN TRUE
         ELSE FALSE

\* MessageBuffer.ShouldSummarize
ShouldSummarize(rs, g, triggeredByKeyword, c, t) ==
    IF g \notin DOMAIN rs THEN FALSE
    ELSE LET room == rs[g] IN
         IF room.count < c.MinMessagesForSummary THEN FALSE
         ELSE IF triggeredByKeyword THEN TRUE
         ELSE IF c.MessageCount > 0 /\ room.count >= c.MessageCount THEN TRUE
         ELSE IF c.IntervalMinutes > 0
                 /\ room.lastSummaryTime # 0
                 /\ t - room.lastSummaryTime >= c.IntervalMinutes THEN TRUE
         ELSE FALSE

StartIndex_Zero(room) == 0

\* the startIndex GetSnapshot walks from
StartIndex(room) == IF room.count = room.capacity THEN room.writeIndex ELSE 0

\* the messages GetSnapshot's loop visits, in the loop's order
Window(room) ==
    [i \in 1..room.count |-> room.messages[(StartIndex(room) + i - 1) % room.capacity]]

\* Timestamp.Format("15:04"): the minute of the timestamp; two stamps share a minute
HHMM(ts) == ts \div 2

\* the header item GetSnapshot emits for a message
Header(msg) == [Type |-> "text", Text |-> <<HHMM(msg.Timestamp), msg.Sender>>]

\* the content items GetSnapshot appends for one message
Parts(msg) ==
    IF msg.Content.Type # "nil" THEN <<Header(msg), msg.Content>> ELSE <<Header(msg)>>

RECURSIVE Flatten(_)
Flatten(ss) == IF ss = <<>> THEN <<>> ELSE Head(ss) \o Flatten(Tail(ss))

EmptySnapshot ==
    [Count |-> 0, FirstMsgTime |-> 0, LastMsgTime |-> 0, Participants |-> {}, Contents |-> <<>>]

RoomSnapshot_LastAtCount(room) ==
    IF room.count = 0 THEN EmptySnapshot
    ELSE LET w == Window(room) IN
         [Count |-> room.count,
          FirstMsgTime |-> room.messages[StartIndex(room)].Timestamp,
          LastMsgTime |-> room.messages[room.count - 1].Timestamp,
          Participants |-> {w[i].Sender : i \in 1..room.count},
          Contents |-> Flatten([i \in 1..room.count |-> Parts(w[i])])]

\* GetSnapshot, on the room's data, under room.mu.RLock
RoomSnapshot(room) ==
    IF room.count = 0 THEN EmptySnapshot
    ELSE LET w == Window(room) IN
         [Count |-> room.count,
          FirstMsgTime |-> room.messages[StartIndex(room)].Timestamp,
          LastMsgTime |-> room.messages[(StartIndex(room) + room.count - 1) % room.capacity].Timestamp,
          Participants |-> {w[i].Sender : i \in 1..room.count},
          Contents |-> Flatten([i \in 1..room.count |-> Parts(w[i])])]

\* MessageBuffer.GetSnapshot
GetSnapshot(rs, g) == IF g \notin DOMAIN rs THEN EmptySnapshot ELSE RoomSnapshot(rs[g])

\* history: the messages a snapshot of group g is built from
SnapshotMsgs(rs, g) == IF g \notin DOMAIN rs THEN <<>> ELSE Window(rs[g])

----------------------------------------------------------------------------
(* roomData.mu, a sync.RWMutex: at most one writer, or any number of readers *)

FreeLock == [writer |-> "", readers |-> {}]

\* Lock and RLock return only when the lock can be taken
CanLock(m) == m.writer = "" /\ m.readers = {}
CanRLock_IgnoreWriter(m) == TRUE

CanRLock(m) == m.writer = ""

Lock(m, h) == [m EXCEPT !.writer = h]
Unlock(m, h) == [m EXCEPT !.writer = ""]
RLock(m, h) == [m EXCEPT !.readers = @ \cup {h}]

RUnlock_Hold(m, h) == m

RUnlock(m, h) == [m EXCEPT !.readers = @ \ {h}]

\* the goroutines that take a room's lock: the callers, and the summary goroutine
\* in slot s
Holder == <<"t1", "t2", "t3", "t4">>

\* room.mu.Lock(); defer room.mu.Unlock(): holder h runs a function that holds the
\* write lock of group g's room from its entry to its return
Locked(g, h) ==
    /\ CanLock(mu[g])
    /\ mu' = [mu EXCEPT ![g] = Unlock(Lock(@, h), h)]

\* room.mu.RLock(); defer room.mu.RUnlock()
RLocked(g, h) ==
    /\ CanRLock(mu[g])
    /\ mu' = [mu EXCEPT ![g] = RUnlock(RLock(@, h), h)]

\* Clear, ShouldSummarize and GetSnapshot return before locking when rooms.Get misses
LockedIfPresent(g, h) == IF g \in DOMAIN rooms THEN Locked(g, h) ELSE mu' = mu
RLockedIfPresent(g, h) == IF g \in DOMAIN rooms THEN RLocked(g, h) ELSE mu' = mu

----------------------------------------------------------------------------
(* logic/summary: Generator.Generate *)

\* what llmService.GenerateSummary can return: text, the "nothing noteworthy"
\* sentinel (or blank text), an API error, or the context's cancellation error
LLMResults(cancelled) ==
    {"text", "sentinel", "error"} \cup (IF cancelled THEN {"cancelled"} ELSE {})

\* Generate's result before the summarizer is called: the empty-buffer skip
GenerateSkipsEmpty(snap) == snap.Count = 0 \/ Len(snap.Contents) = 0

\* Generate's result for a summarizer return value, as generateAndSendSummary sees it
GenerateResult(r) ==
    CASE r = "text" -> "text"
      [] r = "sentinel" -> "no_important_update"
      [] OTHER -> r

----------------------------------------------------------------------------
(* logic/bot: Bot *)

\* sync.Map.LoadOrStore(key, true)
LoadOrStore_AlwaysStore(m, k) == [loaded |-> FALSE, map |-> m \cup {k}]

LoadOrStore_AnyKey(m, k) == [loaded |-> m # {}, map |-> m \cup {k}]

LoadOrStore(m, k) == [loaded |-> k \in m, map |-> m \cup {k}]

\* sync.Map.Delete(key), deferred in the summary goroutine
Delete_Keep(m, k) == m

Delete(m, k) == m \ {k}

\* where generateAndSendSummary goes after Generate returned `outcome`
AfterGenerate_ClearOnError(outcome) ==
    CASE outcome \in {"error", "cancelled"} -> "clear"
      [] outcome \in {"empty_buffer", "no_important_update"} -> "clear"
      [] OTHER -> "send"

AfterGenerate_NoClearOnSkip(outcome) ==
    CASE outcome \in {"error", "cancelled"} -> "release"
      [] outcome \in {"empty_buffer", "no_important_update"} -> "release"
      [] OTHER -> "send"

AfterGenerate(outcome) ==
    CASE outcome \in {"error", "cancelled"} -> "release"
      [] outcome \in {"empty_buffer", "no_important_update"} -> "clear"
      [] OTHER -> "send"

AfterSend_AlwaysClear(ok) == "clear"

\* where generateAndSendSummary goes after sendToSelf returned
AfterSend(ok) == IF ok THEN "clear" ELSE "release"

\* checkKeywordTrigger: strings.Contains(text, keyword), keyword non-empty
checkKeywordTrigger(text) == Keyword # "" /\ text = Keyword

Callers == {"msg", "timer"}

\* where a caller continues after triggerSummary returns
Ret(c) == IF c = "timer" THEN "sweep" ELSE "idle"

\* a free slot. A task holds its group, its position, the outcome it has seen and its
\* snapshot; msgs, room0 and h0 are history: the messages of the snapshot, the room's
\* data and the length of the group's history when the snapshot was taken
NoTask == [pc |-> "free", g |-> "", outcome |-> "", snap |-> EmptySnapshot,
           msgs |-> <<>>, room0 |-> NewRoom(0), h0 |-> 0]

FreeSlots == {s \in Slots : tasks[s].pc = "free"}
TasksOf(g) == {s \in Slots : tasks[s].pc # "free" /\ tasks[s].g = g}

\* history labels: the steps whose result is recorded, and all other steps
Label(op, g, info) == [op |-> op, g |-> g, info |-> info]
Step == Label("step", "", "")

\* the messages handleMessage can be called with, after its filters
Inbound == { <<"m1", "Alice", "hi">>, <<"m2", "Bob", "@bot">> }

\* the accepted-message history after Add(msg) on group g
HistAdd(g, msg) ==
    IF g \in DOMAIN rooms /\ msg.ID \in rooms[g].messageIDs THEN hist
    ELSE [hist EXCEPT ![g] = Append(@, msg)]

Init ==
    /\ cfg = [MaxBufferSize |-> 2, MinMessagesForSummary |-> 1,
              MessageCount |-> 2, IntervalMinutes |-> 1]
    /\ rooms = [g \in {} |-> NewRoom(1)]
    /\ now = 1
    /\ stamp = 0
    /\ hist = [g \in Groups |-> <<>>]
    /\ activeSummaries = {}
    /\ callers = [c \in Callers |->
                    [pc |-> IF c = "timer" THEN "off" ELSE "idle",
                     g |-> "", text |-> "", todo |-> {}]]
    /\ tasks = [s \in Slots |-> NoTask]
    /\ wg = 0
    /\ ctxCancelled = FALSE
    /\ stopPc = "running"
    /\ ticker = [next |-> 0, C |-> FALSE]
    /\ genCalls = [g \in Groups |-> 0]
    /\ mu = [g \in Groups |-> FreeLock]
    /\ failedAt = [g \in Groups |-> 0]
    /\ last = Label("init", "", "")

\* time passes; a running ticker whose period has elapsed fills its channel
Tick ==
    /\ now <= MaxNow
    /\ now' = now + 1
    /\ ticker' = IF ticker.next # 0 /\ now + 1 >= ticker.next
                 THEN [next |-> ticker.next + cfg.IntervalMinutes, C |-> TRUE]
                 ELSE ticker
    /\ last' = Step
    /\ UNCHANGED <<failedAt, mu, cfg, rooms, stamp, hist, activeSummaries, callers, tasks,
                   wg, ctxCancelled, stopPc, genCalls>>

\* handleMessage, lines 211-217: buffer.Add of the accepted message
HandleMessageAdd(g, in) ==
    /\ callers["msg"].pc = "idle"
    /\ stamp < MaxStamp
    /\ LET msg == Message(in[1], stamp + 1, in[2], TextContent(in[3])) IN
         /\ rooms' = Add(rooms, g, msg, cfg.MaxBufferSize)
         /\ hist' = HistAdd(g, msg)
         /\ last' = Step
    /\ Locked(g, "msg")
    /\ stamp' = stamp + 1
    /\ callers' = [callers EXCEPT !["msg"] = [pc |-> "eval", g |-> g, text |-> in[3], todo |-> {}]]
    /\ UNCHANGED <<failedAt, cfg, now, activeSummaries, tasks, wg, ctxCancelled, stopPc,
                   ticker, genCalls>>

\* handleMessage, line 219: ShouldSummarize with the keyword flag of the message
HandleMessageEval ==
    /\ callers["msg"].pc = "eval"
    /\ LET c == callers["msg"]
           fire == ShouldSummarize(rooms, c.g, checkKeywordTrigger(c.text), cfg, now)
       IN /\ callers' = [callers EXCEPT !["msg"].pc = IF fire THEN "trigger" ELSE "idle"]
          /\ RLockedIfPresent(c.g, "msg")
          /\ last' = Step
    /\ UNCHANGED <<failedAt, cfg, rooms, now, stamp, hist, activeSummaries, tasks, wg,
                   ctxCancelled, stopPc, ticker, genCalls>>

\* triggerSummary, lines 282-284: the claim
TriggerSummary(c) ==
    /\ callers[c].pc = "trigger"
    /\ LET g == callers[c].g
           r == LoadOrStore(activeSummaries, g)
       IN /\ activeSummaries' = r.map
          /\ callers' = [callers EXCEPT ![c].pc = IF r.loaded THEN Ret(c) ELSE "spawn"]
          /\ genCalls' = IF r.loaded THEN genCalls ELSE [genCalls EXCEPT ![g] = 0]
          /\ last' = Label("TriggerSummary", g, IF r.loaded THEN "busy" ELSE "claimed")
    /\ UNCHANGED <<failedAt, mu, cfg, rooms, now, stamp, hist, tasks, wg, ctxCancelled,
                   stopPc, ticker>>

\* triggerSummary, lines 286-291: wg.Add(1) and the go statement
Spawn(c) ==
    /\ callers[c].pc = "spawn"
    /\ FreeSlots # {}
    /\ LET s == CHOOSE x \in FreeSlots : \A y \in FreeSlots : x <= y
           g == callers[c].g
       IN /\ tasks' = [tasks EXCEPT ![s] = [NoTask EXCEPT !.pc = "start", !.g = g]]
          /\ last' = Step
    /\ wg' = wg + 1
    /\ callers' = [callers EXCEPT ![c].pc = Ret(c)]
    /\ UNCHANGED <<failedAt, mu, cfg, rooms, now, stamp, hist, activeSummaries, ctxCancelled,
                   stopPc, ticker, genCalls>>

\* Generate, lines 31-35: the snapshot and the empty-buffer skip
TaskGenerate(s) ==
    /\ tasks[s].pc = "start"
    /\ LET g == tasks[s].g
           snap == GetSnapshot(rooms, g)
           outcome == IF GenerateSkipsEmpty(snap) THEN "empty_buffer" ELSE "none"
       IN /\ tasks' = [tasks EXCEPT ![s] =
                         [pc |-> IF outcome = "none" THEN "llm" ELSE AfterGenerate(outcome),
                          g |-> g, outcome |-> outcome, snap |-> snap,
                          msgs |-> SnapshotMsgs(rooms, g),
                          room0 |-> IF g \in DOMAIN rooms THEN rooms[g] ELSE NewRoom(0),
                          h0 |-> Len(hist[g])]]
          /\ genCalls' = [genCalls EXCEPT ![g] = @ + 1]
          /\ RLockedIfPresent(g, Holder[s])
          /\ last' = Step
    /\ UNCHANGED <<failedAt, cfg, rooms, now, stamp, hist, activeSummaries, callers, wg,
                   ctxCancelled, stopPc, ticker>>

\* Generate, lines 43-54, and generateAndSendSummary, lines 298-311: the summarizer returns
TaskLLMReturn(s) ==
    /\ tasks[s].pc = "llm"
    /\ \E r \in LLMResults(ctxCancelled) :
         /\ tasks' = [tasks EXCEPT ![s].outcome = GenerateResult(r),
                                   ![s].pc = AfterGenerate(GenerateResult(r))]
         /\ last' = Step
    /\ UNCHANGED <<failedAt, mu, cfg, rooms, now, stamp, hist, activeSummaries, callers, wg,
                   ctxCancelled, stopPc, ticker, genCalls>>

\* generateAndSendSummary, lines 313-316: sendToSelf returns
TaskSend(s) ==
    /\ tasks[s].pc = "send"
    /\ \E ok \in BOOLEAN :
         /\ tasks' = [tasks EXCEPT ![s].outcome = IF ok THEN "sent" ELSE "send_error",
                                   ![s].pc = AfterSend(ok)]
         /\ last' = Step
    /\ UNCHANGED <<failedAt, mu, cfg, rooms, now, stamp, hist, activeSummaries, callers, wg,
                   ctxCancelled, stopPc, ticker, genCalls>>

\* generateAndSendSummary, lines 309 and 318: buffer.Clear
TaskClear(s) ==
    /\ tasks[s].pc = "clear"
    /\ LET g == tasks[s].g IN
         /\ rooms' = Clear(rooms, g, now)
         /\ hist' = IF g \in DOMAIN rooms THEN [hist EXCEPT ![g] = <<>>] ELSE hist
         /\ failedAt' = IF g \in DOMAIN rooms THEN [failedAt EXCEPT ![g] = 0] ELSE failedAt
         /\ LockedIfPresent(g, Holder[s])
         /\ last' = Step
    /\ tasks' = [tasks EXCEPT ![s].pc = "release"]
    /\ UNCHANGED <<cfg, now, stamp, activeSummaries, callers, wg, ctxCancelled,
                   stopPc, ticker, genCalls>>

\* triggerSummary, lines 288-289: the deferred activeSummaries.Delete, then wg.Done
TaskRelease(s) ==
    /\ tasks[s].pc = "release"
    /\ activeSummaries' = Delete(activeSummaries, tasks[s].g)
    /\ tasks' = [tasks EXCEPT ![s] = NoTask]
    /\ wg' = wg - 1
    /\ last' = Label("Release", tasks[s].g, tasks[s].outcome)
    /\ failedAt' = IF tasks[s].outcome = "error"
                   THEN [failedAt EXCEPT ![tasks[s].g] = tasks[s].h0]
                   ELSE failedAt
    /\ UNCHANGED <<mu, cfg, rooms, now, stamp, hist, callers, ctxCancelled, stopPc,
                   ticker, genCalls>>

\* Start, lines 82-84, and startIntervalTimer: the ticker and the timer goroutine
StartTimer ==
    /\ callers["timer"].pc = "off"
    /\ stopPc = "running"
    /\ cfg.IntervalMinutes > 0
    /\ callers' = [callers EXCEPT !["timer"].pc = "select"]
    /\ ticker' = [next |-> now + cfg.IntervalMinutes, C |-> FALSE]
    /\ last' = Step
    /\ UNCHANGED <<failedAt, mu, cfg, rooms, now, stamp, hist, activeSummaries, tasks, wg,
                   ctxCancelled, stopPc, genCalls>>

\* startIntervalTimer, lines 342-344: a tick is received, the group keys are read
TimerTick ==
    /\ callers["timer"].pc = "select"
    /\ ticker.C
    /\ ticker' = [ticker EXCEPT !.C = FALSE]
    /\ callers' = [callers EXCEPT !["timer"].pc = "sweep",
                                  !["timer"].todo = GetRoomTopics(rooms)]
    /\ last' = Step
    /\ UNCHANGED <<failedAt, mu, cfg, rooms, now, stamp, hist, activeSummaries, tasks, wg,
                   ctxCancelled, stopPc, genCalls>>

\* startIntervalTimer, lines 345-350: one iteration of the sweep, or its end
TimerSweep ==
    /\ callers["timer"].pc = "sweep"
    /\ IF callers["timer"].todo = {}
       THEN /\ callers' = [callers EXCEPT !["timer"].pc = "select"]
            /\ mu' = mu
            /\ last' = Step
       ELSE \E topic \in callers["timer"].todo :
              LET fire == ShouldSummarize(rooms, topic, FALSE, cfg, now) IN
              /\ callers' = [callers EXCEPT
                               !["timer"] = [pc |-> IF fire THEN "trigger" ELSE "sweep",
                                             g |-> topic, text |-> "",
                                             todo |-> callers["timer"].todo \ {topic}]]
              /\ RLockedIfPresent(topic, "timer")
              /\ last' = Step
    /\ UNCHANGED <<failedAt, cfg, rooms, now, stamp, hist, activeSummaries, tasks, wg,
                   ctxCancelled, stopPc, ticker, genCalls>>

\* Stop, line 159: cancel()
StopCancel ==
    /\ stopPc = "running"
    /\ ctxCancelled' = TRUE
    /\ stopPc' = "cancelled"
    /\ last' = Step
    /\ UNCHANGED <<failedAt, mu, cfg, rooms, now, stamp, hist, activeSummaries, callers, tasks,
                   wg, ticker, genCalls>>

\* Stop, line 160: stopIntervalTimer's non-blocking send on stopTimer
StopTimer ==
    /\ stopPc = "cancelled"
    /\ stopPc' = "timerSignalled"
    /\ callers' = IF callers["timer"].pc = "select"
                  THEN [callers EXCEPT !["timer"].pc = "stopped"]
                  ELSE callers
    /\ last' = Step
    /\ UNCHANGED <<failedAt, mu, cfg, rooms, now, stamp, hist, activeSummaries, tasks, wg,
                   ctxCancelled, ticker, genCalls>>

StopWait_NoWait ==
    /\ stopPc = "timerSignalled"
    /\ stopPc' = "stopped"
    /\ last' = Step
    /\ UNCHANGED <<failedAt, mu, cfg, rooms, now, stamp, hist, activeSummaries, callers, tasks,
                   wg, ctxCancelled, ticker, genCalls>>

\* Stop, lines 161-164: wg.Wait returns, Stop returns
StopWait ==
    /\ stopPc = "timerSignalled"
    /\ wg = 0
    /\ stopPc' = "stopped"
    /\ last' = Step
    /\ UNCHANGED <<failedAt, mu, cfg, rooms, now, stamp, hist, activeSummaries, callers, tasks,
                   wg, ctxCancelled, ticker, genCalls>>

Next ==
    \/ Tick
    \/ \E g \in SpecGroups, in \in Inbound : HandleMessageAdd(g, in)
    \/ HandleMessageEval
    \/ \E c \in Callers : TriggerSummary(c)
    \/ \E c \in Callers : Spawn(c)
    \/ \E s \in Slots : TaskGenerate(s)
    \/ \E s \in Slots : TaskLLMReturn(s)
    \/ \E s \in Slots : TaskSend(s)
    \/ \E s \in Slots : TaskClear(s)
    \/ \E s \in Slots : TaskRelease(s)
    \/ StartTimer
    \/ TimerTick
    \/ TimerSweep
    \/ StopCancel
    \/ StopTimer
    \/ StopWait

Spec == Init /\ [][Next]_vars

\* The Go scheduler runs every runnable goroutine: a summary goroutine that is not
\* waiting for the summarizer takes its next step, and sendToSelf returns.
Fairness ==
    \A s \in Slots :
        /\ WF_vars(TaskGenerate(s))
        /\ WF_vars(TaskSend(s))
        /\ WF_vars(TaskClear(s))
        /\ WF_vars(TaskRelease(s))

\* the message handler, the summary goroutines and Stop, without the interval timer
\* (Start does not start it when IntervalMinutes is 0 at startup)
NextLive ==
    \/ \E g \in SpecGroups, in \in Inbound : HandleMessageAdd(g, in)
    \/ HandleMessageEval
    \/ TriggerSummary("msg")
    \/ Spawn("msg")
    \/ \E s \in Slots : TaskGenerate(s)
    \/ \E s \in Slots : TaskLLMReturn(s)
    \/ \E s \in Slots : TaskSend(s)
    \/ \E s \in Slots : TaskClear(s)
    \/ \E s \in Slots : TaskRelease(s)
    \/ StopCancel
    \/ StopTimer
    \/ StopWait

LiveSpec == Init /\ [][NextLive]_vars /\ Fairness

\* Shutdown: Stop runs to its end once called, and a summarizer call made under
\* the bot's context returns once that context is cancelled (the HTTP request
\* carries the context).
FairnessStop ==
    /\ Fairness
    /\ WF_vars(StopTimer)
    /\ WF_vars(StopWait)
    /\ \A s \in Slots : WF_vars(ctxCancelled /\ TaskLLMReturn(s))

StopSpec == Init /\ [][NextLive]_vars /\ FairnessStop

----------------------------------------------------------------------------
(* The bot serving two groups: the message handler and the summary
   goroutines, without the interval timer and without shutdown. *)

NextTwo ==
    \/ \E g \in Groups, in \in Inbound : HandleMessageAdd(g, in)
    \/ HandleMessageEval
    \/ TriggerSummary("msg")
    \/ Spawn("msg")
    \/ \E s \in Slots : TaskGenerate(s)
    \/ \E s \in Slots : TaskLLMReturn(s)
    \/ \E s \in Slots : TaskSend(s)
    \/ \E s \in Slots : TaskClear(s)
    \/ \E s \in Slots : TaskRelease(s)

SpecTwo == Init /\ [][NextTwo]_vars

----------------------------------------------------------------------------
(* The MessageBuffer alone: Add and Clear called directly, as the package's
   tests do, on groups of capacity 1 to 3. *)

\* the messages Add is called with: id, sender, content
BufInbound ==
    { <<"m1", "Alice", TextContent("hi")>>, <<"m2", "Bob", ImageContent>>,
      <<"m3", "Alice", TextContent("hi")>>, <<"m4", "Bob", TextContent("@bot")>> }

InitBuf ==
    /\ cfg \in [MaxBufferSize : {1, 2, 3}, MinMessagesForSummary : {1},
                MessageCount : {2}, IntervalMinutes : {1}]
    /\ rooms = [g \in {} |-> NewRoom(1)]
    /\ now = 1
    /\ stamp = 0
    /\ hist = [g \in Groups |-> <<>>]
    /\ activeSummaries = {}
    /\ callers = [c \in Callers |->
                    [pc |-> IF c = "timer" THEN "off" ELSE "idle",
                     g |-> "", text |-> "", todo |-> {}]]
    /\ tasks = [s \in Slots |-> NoTask]
    /\ wg = 0
    /\ ctxCancelled = FALSE
    /\ stopPc = "running"
    /\ ticker = [next |-> 0, C |-> FALSE]
    /\ genCalls = [g \in Groups |-> 0]
    /\ mu = [g \in Groups |-> FreeLock]
    /\ failedAt = [g \in Groups |-> 0]
    /\ last = Label("init", "", "")

\* MessageBuffer.Add(msg)
BufAdd(g, in) ==
    /\ stamp < MaxBufStamp
    /\ LET msg == Message(in[1], stamp + 1, in[2], in[3]) IN
         /\ rooms' = Add(rooms, g, msg, cfg.MaxBufferSize)
         /\ hist' = HistAdd(g, msg)
         /\ last' = Label("Add", g,
                          IF g \in DOMAIN rooms /\ msg.ID \in rooms[g].messageIDs
                          THEN "duplicate" ELSE "accepted")
    /\ Locked(g, "msg")
    /\ stamp' = stamp + 1
    /\ UNCHANGED <<failedAt, cfg, now, activeSummaries, callers, tasks, wg, ctxCancelled, stopPc,
                   ticker, genCalls>>

\* MessageBuffer.Clear(roomTopic)
BufClear(g) ==
    /\ rooms' = Clear(rooms, g, now)
    /\ hist' = IF g \in DOMAIN rooms THEN [hist EXCEPT ![g] = <<>>] ELSE hist
    /\ failedAt' = IF g \in DOMAIN rooms THEN [failedAt EXCEPT ![g] = 0] ELSE failedAt
    /\ last' = Label("Clear", g, IF g \in DOMAIN rooms THEN "cleared" ELSE "unknown")
    /\ LockedIfPresent(g, "msg")
    /\ UNCHANGED <<cfg, now, stamp, activeSummaries, callers, tasks, wg, ctxCancelled,
                   stopPc, ticker, genCalls>>

NextBuf ==
    \/ Tick
    \/ \E g \in BufGroups, in \in BufInbound : BufAdd(g, in)
    \/ \E g \in BufGroups : BufClear(g)

SpecBuf == InitBuf /\ [][NextBuf]_vars

----------------------------------------------------------------------------
(* The trigger policy alone: ShouldSummarize called on groups of capacity 5
   that Add and Clear have brought into every count from 0 to 5, and on groups
   of capacity 1, smaller than the floor and the volume threshold, under every
   combination of floor, volume threshold and interval, enabled or disabled. *)

\* the ids the messages of a run carry, by arrival rank
IdOf == <<"m1", "m2", "m3", "m4", "m5", "m6", "m7", "m8">>

\* the messages Add is called with: a message with a fresh id, or the previous
\* message delivered again
TrigInbound ==
    { <<IdOf[n], "Alice", TextContent("hi")>> : n \in {stamp + 1} \cup ({stamp} \ {0}) }

InitTrig ==
    /\ cfg \in [MaxBufferSize : {1, 5}, MinMessagesForSummary : {0, 2, 3},
                MessageCount : {0, 2, 5}, IntervalMinutes : {0, 1, 2}]
    /\ rooms = [g \in {} |-> NewRoom(1)]
    /\ now = 1
    /\ stamp = 0
    /\ hist = [g \in Groups |-> <<>>]
    /\ activeSummaries = {}
    /\ callers = [c \in Callers |->
                    [pc |-> IF c = "timer" THEN "off" ELSE "idle",
                     g |-> "", text |-> "", todo |-> {}]]
    /\ tasks = [s \in Slots |-> NoTask]
    /\ wg = 0
    /\ ctxCancelled = FALSE
    /\ stopPc = "running"
    /\ ticker = [next |-> 0, C |-> FALSE]
    /\ genCalls = [g \in Groups |-> 0]
    /\ mu = [g \in Groups |-> FreeLock]
    /\ failedAt = [g \in Groups |-> 0]
    /\ last = Label("init", "", "")

\* MessageBuffer.ShouldSummarize(roomTopic, triggeredByKeyword): the caller keeps
\* the keyword flag (in the text it passed) and the result (in its position)
TrigEval(g, kw) ==
    /\ LET fire == ShouldSummarize(rooms, g, kw, cfg, now) IN
         callers' = [callers EXCEPT !["msg"] =
                        [pc |-> IF fire THEN "trigger" ELSE "idle", g |-> g,
                         text |-> IF kw THEN Keyword ELSE "hi", todo |-> {}]]
    /\ last' = Label("ShouldSummarize", g, "")
    /\ RLockedIfPresent(g, "msg")
    /\ UNCHANGED <<failedAt, cfg, rooms, now, stamp, hist, activeSummaries, tasks, wg,
                   ctxCancelled, stopPc, ticker, genCalls>>

NextTrig ==
    \/ Tick
    \/ \E g \in BufGroups, in \in TrigInbound : BufAdd(g, in)
    \/ \E g \in BufGroups : BufClear(g)
    \/ \E g \in BufGroups, kw \in BOOLEAN : TrigEval(g, kw)

SpecTrigger == InitTrig /\ [][NextTrig]_vars

----------------------------------------------------------------------------
(* The store of groups under configuration reloads: Add and Clear on two
   groups while the watcher of .env stores a new configuration. *)

\* the values MAX_BUFFER_SIZE takes
BufferSizes == {1, 2}

InitStore ==
    /\ cfg \in [MaxBufferSize : {2}, MinMessagesForSummary : {1},
                MessageCount : {2}, IntervalMinutes : {1}]
    /\ rooms = [g \in {} |-> NewRoom(1)]
    /\ now = 1
    /\ stamp = 0
    /\ hist = [g \in Groups |-> <<>>]
    /\ activeSummaries = {}
    /\ callers = [c \in Callers |->
                    [pc |-> IF c = "timer" THEN "off" ELSE "idle",
                     g |-> "", text |-> "", todo |-> {}]]
    /\ tasks = [s \in Slots |-> NoTask]
    /\ wg = 0
    /\ ctxCancelled = FALSE
    /\ stopPc = "running"
    /\ ticker = [next |-> 0, C |-> FALSE]
    /\ genCalls = [g \in Groups |-> 0]
    /\ mu = [g \in Groups |-> FreeLock]
    /\ failedAt = [g \in Groups |-> 0]
    /\ last = Label("init", "", "")

\* config.Parse after a write to .env: a new Config is stored
ConfigReload(size) ==
    /\ size # cfg.MaxBufferSize
    /\ cfg' = [cfg EXCEPT !.MaxBufferSize = size]
    /\ last' = Step
    /\ UNCHANGED <<failedAt, mu, rooms, now, stamp, hist, activeSummaries, callers, tasks, wg,
                   ctxCancelled, stopPc, ticker, genCalls>>

NextStore ==
    \/ \E g \in Groups, in \in TrigInbound : BufAdd(g, in)
    \/ \E g \in Groups : BufClear(g)
    \/ \E size \in BufferSizes : ConfigReload(size)

SpecStore == InitStore /\ [][NextStore]_vars

----------------------------------------------------------------------------
(* The room's data under its lock, statement by statement: one goroutine calls
   Add, one calls Clear and one calls GetSnapshot on the same group, and each
   statement of the three functions is a step of its own between the
   function's Lock or RLock and its deferred Unlock or RUnlock. *)

\* the messages Add is called with: id, sender, content
AtomInbound ==
    { <<"m1", "Alice", TextContent("hi")>>, <<"m2", "Bob", ImageContent>>,
      <<"m3", "Alice", TextContent("hi")>> }

\* the message of the Add call in progress
AtomMsg ==
    LET in == CHOOSE x \in AtomInbound : x[1] = callers["msg"].text
    IN Message(in[1], stamp, in[2], in[3])

\* the frame of a GetSnapshot call: its position, the snapshot under construction
\* and startIndex; msgs, room0 and h0 are history
SnapFrame(pc, g, snap, msgs, room0, h0, startIndex) ==
    [pc |-> pc, g |-> g, outcome |-> "", snap |-> snap, msgs |-> msgs,
     room0 |-> room0, h0 |-> h0, startIndex |-> startIndex]

AtomUnchanged == UNCHANGED <<failedAt, cfg, now, activeSummaries, wg, ctxCancelled, stopPc,
                             ticker, genCalls>>

\* the caller at position pc moves to position to
Goto(c, pc, to) ==
    /\ callers[c].pc = pc
    /\ callers' = [callers EXCEPT ![c].pc = to]

\* Add, line 55: getOrCreateRoom
AddCall(g, in) ==
    /\ callers["msg"].pc = "idle"
    /\ stamp < MaxStamp
    /\ stamp' = stamp + 1
    /\ rooms' = getOrCreateRoom(rooms, g, cfg.MaxBufferSize)
    /\ callers' = [callers EXCEPT !["msg"] = [pc |-> "add_lock", g |-> g, text |-> in[1],
                                              todo |-> {}]]
    /\ last' = Step
    /\ UNCHANGED <<mu, hist, tasks>>
    /\ AtomUnchanged

\* Add, line 56: room.mu.Lock()
AddLock ==
    /\ Goto("msg", "add_lock", "add_dedup")
    /\ CanLock(mu[callers["msg"].g])
    /\ mu' = [mu EXCEPT ![callers["msg"].g] = Lock(@, "msg")]
    /\ last' = Step
    /\ UNCHANGED <<rooms, stamp, hist, tasks>>
    /\ AtomUnchanged

\* Add, lines 59-64: the duplicate check
AddDedup ==
    /\ Goto("msg", "add_dedup",
            IF AtomMsg.ID \in rooms[callers["msg"].g].messageIDs
            THEN "add_return" ELSE "add_evict")
    /\ last' = Step
    /\ UNCHANGED <<mu, rooms, stamp, hist, tasks>>
    /\ AtomUnchanged

\* Add, lines 66-70: the evicted id leaves messageIDs
AddEvict ==
    /\ Goto("msg", "add_evict", "add_write")
    /\ LET g == callers["msg"].g
           room == rooms[g]
       IN rooms' = IF room.count = room.capacity
                   THEN [rooms EXCEPT ![g].messageIDs = @ \ {room.messages[room.writeIndex].ID}]
                   ELSE rooms
    /\ last' = Step
    /\ UNCHANGED <<mu, stamp, hist, tasks>>
    /\ AtomUnchanged

\* Add, line 72: the slot is written
AddWrite ==
    /\ Goto("msg", "add_write", "add_ids")
    /\ LET g == callers["msg"].g IN
         rooms' = [rooms EXCEPT ![g].messages[rooms[g].writeIndex] = AtomMsg]
    /\ last' = Step
    /\ UNCHANGED <<mu, stamp, hist, tasks>>
    /\ AtomUnchanged

\* Add, line 73: the id enters messageIDs
AddIds ==
    /\ Goto("msg", "add_ids", "add_cursor")
    /\ rooms' = [rooms EXCEPT ![callers["msg"].g].messageIDs = @ \cup {AtomMsg.ID}]
    /\ last' = Step
    /\ UNCHANGED <<mu, stamp, hist, tasks>>
    /\ AtomUnchanged

\* Add, line 74: the cursor advances
AddCursor ==
    /\ Goto("msg", "add_cursor", "add_count")
    /\ LET g == callers["msg"].g IN
         rooms' = [rooms EXCEPT ![g].writeIndex = (@ + 1) % rooms[g].capacity]
    /\ last' = Step
    /\ UNCHANGED <<mu, stamp, hist, tasks>>
    /\ AtomUnchanged

\* Add, lines 76-78: the count grows; the message is accepted
AddCount ==
    /\ Goto("msg", "add_count", "add_return")
    /\ LET g == callers["msg"].g IN
         /\ rooms' = [rooms EXCEPT ![g].count = IF @ < rooms[g].capacity THEN @ + 1 ELSE @]
         /\ hist' = [hist EXCEPT ![g] = Append(@, AtomMsg)]
    /\ last' = Step
    /\ UNCHANGED <<mu, stamp, tasks>>
    /\ AtomUnchanged

\* Add, line 57: the deferred room.mu.Unlock()
AddUnlock ==
    /\ Goto("msg", "add_return", "idle")
    /\ mu' = [mu EXCEPT ![callers["msg"].g] = Unlock(@, "msg")]
    /\ last' = Step
    /\ UNCHANGED <<rooms, stamp, hist, tasks>>
    /\ AtomUnchanged

\* Clear, lines 95-98: rooms.Get; an unknown group returns
ClearCall(g) ==
    /\ callers["timer"].pc = "off"
    /\ callers' = [callers EXCEPT !["timer"] =
                     [pc |-> IF g \in DOMAIN rooms THEN "clr_lock" ELSE "off",
                      g |-> g, text |-> "", todo |-> {}]]
    /\ last' = Step
    /\ UNCHANGED <<mu, rooms, stamp, hist, tasks>>
    /\ AtomUnchanged

\* Clear, line 100: room.mu.Lock()
ClearLock ==
    /\ Goto("timer", "clr_lock", "clr_cursor")
    /\ CanLock(mu[callers["timer"].g])
    /\ mu' = [mu EXCEPT ![callers["timer"].g] = Lock(@, "timer")]
    /\ last' = Step
    /\ UNCHANGED <<rooms, stamp, hist, tasks>>
    /\ AtomUnchanged

\* Clear, line 106: writeIndex = 0
ClearCursor ==
    /\ Goto("timer", "clr_cursor", "clr_count")
    /\ rooms' = [rooms EXCEPT ![callers["timer"].g].writeIndex = 0]
    /\ last' = Step
    /\ UNCHANGED <<mu, stamp, hist, tasks>>
    /\ AtomUnchanged

\* Clear, line 107: count = 0; the buffered messages are gone
ClearCount ==
    /\ Goto("timer", "clr_count", "clr_ids")
    /\ rooms' = [rooms EXCEPT ![callers["timer"].g].count = 0]
    /\ hist' = [hist EXCEPT ![callers["timer"].g] = <<>>]
    /\ last' = Step
    /\ UNCHANGED <<mu, stamp, tasks>>
    /\ AtomUnchanged

\* Clear, lines 108-109: a new messageIDs, lastSummaryTime = time.Now()
ClearIds ==
    /\ Goto("timer", "clr_ids", "clr_return")
    /\ rooms' = [rooms EXCEPT ![callers["timer"].g].messageIDs = {},
                              ![callers["timer"].g].lastSummaryTime = now]
    /\ last' = Step
    /\ UNCHANGED <<mu, stamp, hist, tasks>>
    /\ AtomUnchanged

\* Clear, line 101: the deferred room.mu.Unlock()
ClearUnlock ==
    /\ Goto("timer", "clr_return", "off")
    /\ mu' = [mu EXCEPT ![callers["timer"].g] = Unlock(@, "timer")]
    /\ last' = Step
    /\ UNCHANGED <<rooms, stamp, hist, tasks>>
    /\ AtomUnchanged

\* GetSnapshot, lines 170-173: rooms.Get; an unknown group returns the empty snapshot
SnapCall(g) ==
    /\ tasks[1].pc = "free"
    /\ tasks' = [tasks EXCEPT ![1] =
                   SnapFrame(IF g \in DOMAIN rooms THEN "snap_rlock" ELSE "snap_done",
                             g, EmptySnapshot, <<>>, NewRoom(0), 0, 0)]
    /\ last' = Step
    /\ UNCHANGED <<mu, rooms, stamp, hist, callers>>
    /\ AtomUnchanged

\* GetSnapshot, line 175: room.mu.RLock()
SnapRLock ==
    /\ tasks[1].pc = "snap_rlock"
    /\ LET g == tasks[1].g IN
         /\ CanRLock(mu[g])
         /\ mu' = [mu EXCEPT ![g] = RLock(@, Holder[1])]
         /\ tasks' = [tasks EXCEPT ![1].pc = "snap_count", ![1].room0 = rooms[g],
                                   ![1].h0 = Len(hist[g])]
    /\ last' = Step
    /\ UNCHANGED <<rooms, stamp, hist, callers>>
    /\ AtomUnchanged

\* GetSnapshot, lines 178-185: Count is read; an empty room returns
SnapCount ==
    /\ tasks[1].pc = "snap_count"
    /\ LET room == rooms[tasks[1].g] IN
         tasks' = [tasks EXCEPT ![1].snap.Count = room.count,
                                ![1].pc = IF room.count = 0 THEN "snap_return"
                                          ELSE "snap_start"]
    /\ last' = Step
    /\ UNCHANGED <<mu, rooms, stamp, hist, callers>>
    /\ AtomUnchanged

\* GetSnapshot, lines 187-196: startIndex, the first and the last message
SnapStart ==
    /\ tasks[1].pc = "snap_start"
    /\ LET room == rooms[tasks[1].g]
           startIndex == StartIndex(room)
       IN tasks' = [tasks EXCEPT
                      ![1].startIndex = startIndex,
                      ![1].snap.FirstMsgTime = room.messages[startIndex].Timestamp,
                      ![1].snap.LastMsgTime =
                          room.messages[(startIndex + room.count - 1) % room.capacity].Timestamp,
                      ![1].pc = "snap_loop"]
    /\ last' = Step
    /\ UNCHANGED <<mu, rooms, stamp, hist, callers>>
    /\ AtomUnchanged

\* GetSnapshot, lines 199-213: one iteration of the loop, or its end
SnapLoop ==
    /\ tasks[1].pc = "snap_loop"
    /\ LET room == rooms[tasks[1].g]
           i == Len(tasks[1].msgs)
           msg == room.messages[(tasks[1].startIndex + i) % room.capacity]
       IN tasks' = IF i < room.count
                   THEN [tasks EXCEPT
                           ![1].msgs = Append(@, msg),
                           ![1].snap.Participants = @ \cup {msg.Sender},
                           ![1].snap.Contents = @ \o Parts(msg)]
                   ELSE [tasks EXCEPT ![1].pc = "snap_return"]
    /\ last' = Step
    /\ UNCHANGED <<mu, rooms, stamp, hist, callers>>
    /\ AtomUnchanged

\* GetSnapshot, line 176: the deferred room.mu.RUnlock()
SnapRUnlock ==
    /\ tasks[1].pc = "snap_return"
    /\ mu' = [mu EXCEPT ![tasks[1].g] = RUnlock(@, Holder[1])]
    /\ tasks' = [tasks EXCEPT ![1].pc = "snap_done"]
    /\ last' = Step
    /\ UNCHANGED <<rooms, stamp, hist, callers>>
    /\ AtomUnchanged

\* the caller of GetSnapshot has its snapshot
SnapReturn ==
    /\ tasks[1].pc = "snap_done"
    /\ tasks' = [tasks EXCEPT ![1] = NoTask]
    /\ last' = Step
    /\ UNCHANGED <<mu, rooms, stamp, hist, callers>>
    /\ AtomUnchanged

NextAtomic ==
    \/ \E g \in BufGroups, in \in AtomInbound : AddCall(g, in)
    \/ AddLock
    \/ AddDedup
    \/ AddEvict
    \/ AddWrite
    \/ AddIds
    \/ AddCursor
    \/ AddCount
    \/ AddUnlock
    \/ \E g \in BufGroups : ClearCall(g)
    \/ ClearLock
    \/ ClearCursor
    \/ ClearCount
    \/ ClearIds
    \/ ClearUnlock
    \/ \E g \in BufGroups : SnapCall(g)
    \/ SnapRLock
    \/ SnapCount
    \/ SnapStart
    \/ SnapLoop
    \/ SnapRUnlock
    \/ SnapReturn

SpecAtomic == Init /\ [][NextAtomic]_vars

----------------------------------------------------------------------------
(* Helpers of the properties *)

\* the last n elements of a sequence
LastN(sq, n) == IF Len(sq) <= n THEN sq ELSE SubSeq(sq, Len(sq) - n + 1, Len(sq))

\* the elements of a sequence are pairwise different in their ID
DistinctIds(sq) == \A i, j \in DOMAIN sq : sq[i].ID = sq[j].ID => i = j

\* the resident messages of a room, oldest first
Resident(room) == Window(room)

----------------------------------------------------------------------------
(* C9: for Add calls with distinct ids on a group of capacity C the resident
   count never exceeds C, and once more than C messages have been added the
   resident messages are exactly the C most recently added ones. *)
C9_BoundedMostRecent ==
    \A g \in DOMAIN rooms :
        /\ rooms[g].count <= rooms[g].capacity
        /\ (DistinctIds(hist[g]) /\ Len(hist[g]) > rooms[g].capacity) =>
              /\ rooms[g].count = rooms[g].capacity
              /\ Resident(rooms[g]) = LastN(hist[g], rooms[g].capacity)
              /\ rooms[g].messageIDs
                   = {LastN(hist[g], rooms[g].capacity)[i].ID : i \in 1..rooms[g].capacity}

\* more than C distinct ids were added to a group of capacity C >= 2, no Clear since
C9_Witness ==
    \E g \in DOMAIN rooms :
        /\ rooms[g].capacity >= 2
        /\ rooms[g].lastSummaryTime = 0
        /\ DistinctIds(hist[g])
        /\ Len(hist[g]) >= rooms[g].capacity + 2
        /\ last = Label("Add", g, "accepted")

(* C10: Add of an id that is resident in its group leaves count, write cursor,
   slots, seen ids and the snapshot unchanged, also in a full, wrapped buffer. *)
C10_AddIdempotent ==
    \A g \in DOMAIN rooms : \A in \in BufInbound :
        in[1] \in rooms[g].messageIDs =>
            LET after == Add(rooms, g, Message(in[1], stamp + 1, in[2], in[3]),
                             cfg.MaxBufferSize)
            IN /\ after[g].count = rooms[g].count
               /\ after[g].writeIndex = rooms[g].writeIndex
               /\ after[g].messages = rooms[g].messages
               /\ after[g].messageIDs = rooms[g].messageIDs
               /\ GetSnapshot(after, g) = GetSnapshot(rooms, g)
               /\ after = rooms

\* a resident id was re-added to a full buffer that has wrapped
C10_Witness ==
    \E g \in DOMAIN rooms :
        /\ last = Label("Add", g, "duplicate")
        /\ rooms[g].count = rooms[g].capacity
        /\ rooms[g].capacity >= 2
        /\ rooms[g].writeIndex # 0
        /\ Len(hist[g]) > rooms[g].capacity

----------------------------------------------------------------------------
\* the messages of group g that are resident according to the history of its
\* accepted Adds: the last min(accepted, capacity) of them, oldest first
Arrived(g) == LastN(hist[g], Min(Len(hist[g]), rooms[g].capacity))

\* the content items a snapshot of the messages sq holds, in sq's order
ContentsOf(sq) == Flatten([i \in 1..Len(sq) |-> Parts(sq[i])])

(* C11: after any sequence of Add and Clear, GetSnapshot emits exactly the
   resident messages, in the order in which they were added; a message that
   was evicted (or cleared) does not appear. *)
C11_SnapshotArrivalOrder ==
    \A g \in DOMAIN rooms :
        LET snap == GetSnapshot(rooms, g) IN
          /\ SnapshotMsgs(rooms, g) = Arrived(g)
          /\ snap.Count = Len(Arrived(g))
          /\ snap.Contents = ContentsOf(Arrived(g))
          /\ snap.Participants = {Arrived(g)[i].Sender : i \in 1..Len(Arrived(g))}
          /\ \A i \in 1..(Len(hist[g]) - rooms[g].capacity) :
                 hist[g][i] \notin Range(SnapshotMsgs(rooms, g))

\* a buffer filled beyond its capacity, with an evicted id added again, whose
\* oldest message is not in slot 0
C11_Witness ==
    \E g \in DOMAIN rooms :
        /\ rooms[g].capacity >= 2
        /\ Len(hist[g]) > rooms[g].capacity
        /\ ~DistinctIds(hist[g])
        /\ rooms[g].writeIndex # 0
        /\ last = Label("Add", g, "accepted")

(* C12: wraparound. After C+k Adds with distinct ids (0 < k < C) on a fresh
   group of capacity C the snapshot has count C, its first entry is the
   (k+1)-th added message and its last entry the most recently added one. *)
C12_Wraparound ==
    \A g \in DOMAIN rooms :
        LET C == rooms[g].capacity
            k == Len(hist[g]) - C
            snap == GetSnapshot(rooms, g)
        IN (rooms[g].lastSummaryTime = 0 /\ DistinctIds(hist[g]) /\ 0 < k /\ k < C) =>
              /\ snap.Count = C
              /\ snap.FirstMsgTime = hist[g][k + 1].Timestamp
              /\ snap.LastMsgTime = hist[g][C + k].Timestamp
              /\ SnapshotMsgs(rooms, g)[1] = hist[g][k + 1]
              /\ SnapshotMsgs(rooms, g)[C] = hist[g][C + k]
              /\ snap.Contents = ContentsOf(SubSeq(hist[g], k + 1, C + k))

\* capacity 3, m1, m2, m3, m4 added to the fresh group: the snapshot is m2, m3, m4
C12_Witness ==
    \E g \in DOMAIN rooms :
        /\ rooms[g].capacity = 3
        /\ rooms[g].lastSummaryTime = 0
        /\ [i \in 1..Len(hist[g]) |-> hist[g][i].ID] = <<"m1", "m2", "m3", "m4">>
        /\ [i \in 1..3 |-> SnapshotMsgs(rooms, g)[i].ID] = <<"m2", "m3", "m4">>
        /\ GetSnapshot(rooms, g).Count = 3

(* C17: in every reachable state of a group, count is the number of seen ids,
   and the seen ids are exactly the ids of the messages in the logical window
   of count slots: the id of an evicted message leaves the set with it. *)
C17_SeenIdsInSync ==
    \A g \in DOMAIN rooms :
        /\ rooms[g].count = Cardinality(rooms[g].messageIDs)
        /\ rooms[g].messageIDs = {Window(rooms[g])[i].ID : i \in 1..rooms[g].count}

\* an Add has just evicted the oldest message of a full buffer, whose id is
\* no longer seen
C17_Witness ==
    \E g \in DOMAIN rooms :
        /\ last = Label("Add", g, "accepted")
        /\ rooms[g].count = rooms[g].capacity
        /\ Len(hist[g]) > rooms[g].capacity
        /\ hist[g][Len(hist[g]) - rooms[g].capacity].ID \notin rooms[g].messageIDs

(* C18: Clear on an existing group sets count = 0, write cursor = 0, seen ids
   = {} and the last flush time = now; the group's capacity, the set of groups
   in the store and every other group are as before. *)
C18_ClearResets ==
    [][\A g \in Groups :
          last' = Label("Clear", g, "cleared") =>
             /\ g \in DOMAIN rooms
             /\ DOMAIN rooms' = DOMAIN rooms
             /\ rooms'[g].count = 0
             /\ rooms'[g].writeIndex = 0
             /\ rooms'[g].messageIDs = {}
             /\ rooms'[g].lastSummaryTime = now
             /\ rooms'[g].capacity = rooms[g].capacity
             /\ \A x \in DOMAIN rooms \ {g} : rooms'[x] = rooms[x]]_vars

\* a group that held messages and had wrapped was cleared after the clock advanced
C18_Witness ==
    \E g \in DOMAIN rooms :
        /\ last = Label("Clear", g, "cleared")
        /\ rooms[g].capacity >= 2
        /\ \A i \in 0..(rooms[g].capacity - 1) : rooms[g].messages[i] # ZeroMessage
        /\ rooms[g].count = 0
        /\ rooms[g].lastSummaryTime = 2

----------------------------------------------------------------------------
(* The trigger policy: what the caller of ShouldSummarize has just been told *)

\* ShouldSummarize has just been evaluated for group g, which has state
Evaluated(g) == last = Label("ShouldSummarize", g, "") /\ g \in DOMAIN rooms

\* the keyword flag the call was made with, and its result
keywordDetected == checkKeywordTrigger(callers["msg"].text)
fired == callers["msg"].pc = "trigger"

\* the volume rule applies to group g
VolumeRule(g) == cfg.MessageCount > 0 /\ rooms[g].count >= cfg.MessageCount

(* C13: hard floor. ShouldSummarize returns false whenever count <
   min_messages, whatever the keyword flag, the volume threshold, the interval
   and the time since the last flush. *)
C13_HardFloor ==
    \A g \in Groups :
        (Evaluated(g) /\ rooms[g].count < cfg.MinMessagesForSummary) => ~fired

\* evaluated with the keyword detected and the volume threshold reached, below the floor
C13_Witness ==
    \E g \in Groups :
        /\ Evaluated(g)
        /\ keywordDetected
        /\ rooms[g].count >= 1
        /\ rooms[g].count < cfg.MinMessagesForSummary
        /\ VolumeRule(g)
        /\ ~fired

(* C14: keyword trigger. ShouldSummarize returns true whenever the keyword was
   detected and count >= min_messages, also with the volume trigger and the
   interval trigger both disabled. *)
C14_KeywordForces ==
    \A g \in Groups :
        (Evaluated(g) /\ keywordDetected /\ rooms[g].count >= cfg.MinMessagesForSummary)
            => fired

\* evaluated with the keyword detected, volume and interval disabled, at the floor
C14_Witness ==
    \E g \in Groups :
        /\ Evaluated(g)
        /\ keywordDetected
        /\ cfg.MessageCount = 0
        /\ cfg.IntervalMinutes = 0
        /\ cfg.MinMessagesForSummary >= 2
        /\ rooms[g].count = cfg.MinMessagesForSummary
        /\ fired

(* C15, as stated: ShouldSummarize is true once count >= message_count_threshold
   (threshold > 0), independent of the keyword flag. *)
C15_VolumeAlways ==
    \A g \in Groups : (Evaluated(g) /\ VolumeRule(g)) => fired

(* C15, amended: ShouldSummarize is true once count >= message_count_threshold
   (threshold > 0) and count >= min_messages, independent of the keyword flag;
   with min_messages = 2 and threshold = 5 it is false after 1 message and
   true after the 5th. *)
C15_VolumeAboveFloor ==
    \A g \in Groups :
        /\ (Evaluated(g) /\ VolumeRule(g) /\ rooms[g].count >= cfg.MinMessagesForSummary)
              => fired
        /\ (Evaluated(g) /\ cfg.MinMessagesForSummary = 2 /\ cfg.MessageCount = 5) =>
              /\ rooms[g].count = 1 => ~fired
              /\ rooms[g].count = 5 => fired

\* min_messages = 2, threshold = 5, no keyword, interval disabled: true after the 5th message
C15_Witness ==
    \E g \in Groups :
        /\ Evaluated(g)
        /\ ~keywordDetected
        /\ cfg.MinMessagesForSummary = 2
        /\ cfg.MessageCount = 5
        /\ cfg.IntervalMinutes = 0
        /\ rooms[g].count = 5
        /\ fired

(* C16: interval trigger. With count >= min_messages, no keyword and the
   volume rule not firing, ShouldSummarize returns true if interval_minutes > 0
   and either the group has never been flushed or the minutes since its last
   flush are >= interval_minutes; otherwise it returns false. *)
C16_IntervalTrigger ==
    \A g \in Groups :
        (Evaluated(g) /\ rooms[g].count >= cfg.MinMessagesForSummary
           /\ ~keywordDetected /\ ~VolumeRule(g)) =>
            (fired <=> (/\ cfg.IntervalMinutes > 0
                        /\ \/ rooms[g].lastSummaryTime = 0
                           \/ now - rooms[g].lastSummaryTime >= cfg.IntervalMinutes))

----------------------------------------------------------------------------
(* Helpers of the dispatcher properties *)

\* the callers that hold the claim of g and have not yet started its goroutine
Spawning(g) == {c \in Callers : callers[c].pc = "spawn" /\ callers[c].g = g}

\* a summarization task of g is running: its goroutine has not yet released the claim
Running(g) == TasksOf(g) # {}

\* the outcomes after which generateAndSendSummary clears the buffer
SuccessOrSkip == {"sent", "empty_buffer", "no_important_update"}

count(g) == IF g \in DOMAIN rooms THEN rooms[g].count ELSE 0

\* the room after Add of each message of a sequence, in order
RECURSIVE ApplyAdds(_, _)
ApplyAdds(room, sq) ==
    IF sq = <<>> THEN room ELSE ApplyAdds(RoomAdd(room, Head(sq)), Tail(sq))

\* the messages accepted into task s's group since the task took its snapshot
AddedSince(s) == SubSeq(hist[tasks[s].g], tasks[s].h0 + 1, Len(hist[tasks[s].g]))

----------------------------------------------------------------------------
(* C1: single-flight. In every reachable state at most one summarization task
   is running per group, whatever the interleaving of the message handler's
   and the timer's triggerSummary calls; a call made while a task is active
   starts none. *)
C1_SingleFlight ==
    \A g \in Groups :
        /\ Cardinality(TasksOf(g)) + Cardinality(Spawning(g)) <= 1
        /\ (Running(g) \/ Spawning(g) # {}) => g \in activeSummaries

\* a triggerSummary call was just dropped while the group's task is running
C1_Witness ==
    \E g \in Groups :
        /\ last = Label("TriggerSummary", g, "busy")
        /\ Running(g)
        /\ \E s \in TasksOf(g) : tasks[s].pc = "llm"

(* C2: of the callers that are inside triggerSummary for the same idle group
   exactly one wins the claim, and Generate is invoked exactly once for the
   group before the claim is released. *)
C2_ExactlyOneWinner ==
    \A g \in Groups :
        \* never two winners
        /\ Cardinality(Spawning(g)) + Cardinality(TasksOf(g)) <= 1
        \* never zero: a caller loses only to a holder that runs or is about to
        /\ last = Label("TriggerSummary", g, "busy") =>
              Cardinality(Spawning(g)) + Cardinality(TasksOf(g)) = 1
        /\ last = Label("TriggerSummary", g, "claimed") =>
              (Cardinality(Spawning(g)) = 1 /\ TasksOf(g) = {} /\ genCalls[g] = 0)
        \* the summarizer runs exactly once per claim
        /\ genCalls[g] <= 1
        /\ \A o \in SuccessOrSkip \cup {"error", "cancelled", "send_error"} :
              last = Label("Release", g, o) => genCalls[g] = 1

\* the loser's call ran while the winner was still inside triggerSummary
C2_Witness ==
    \E g \in Groups :
        /\ last = Label("TriggerSummary", g, "busy")
        /\ callers["msg"].g = g /\ callers["timer"].g = g
        /\ Cardinality(Spawning(g)) = 1
        /\ TasksOf(g) = {}

(* C3: every claim is released. Once the summarizer call of a group's task has
   returned (text, the sentinel, an error or the cancellation) or the task
   skipped an empty buffer, the group becomes idle again, whether the delivery
   then succeeds or fails; a later triggerSummary call finds it idle. *)
C3_ClaimReleased ==
    \A g \in Groups :
        (\E s \in TasksOf(g) : tasks[s].pc \in {"send", "clear", "release"})
            ~> (g \notin activeSummaries /\ TasksOf(g) = {})

\* a task that failed (summarizer error or failed delivery) has released its claim
C3_Witness ==
    \E g \in Groups : \E o \in {"error", "send_error"} :
        /\ last = Label("Release", g, o)
        /\ g \notin activeSummaries
        /\ TasksOf(g) = {}

(* C4: drop-if-busy. A triggerSummary call for a claimed group changes nothing
   but the caller's own position; a task starts only in the step of a caller
   that has won the claim, so after a release no task starts for the group
   until a new triggerSummary call claims it. *)
C4_DropIfBusy ==
    [][ /\ \A c \in Callers :
             (callers[c].pc = "trigger" /\ callers'[c].pc # "trigger"
              /\ callers[c].g \in activeSummaries) =>
                 /\ callers'[c].pc = Ret(c)
                 /\ UNCHANGED <<failedAt, mu, rooms, hist, activeSummaries, tasks, wg, genCalls,
                                ctxCancelled, stopPc, cfg>>
        /\ \A s \in Slots :
             (tasks[s].pc = "free" /\ tasks'[s].pc # "free") =>
                 \E c \in Callers :
                    /\ callers[c].pc = "spawn" /\ callers'[c].pc = Ret(c)
                    /\ tasks'[s].g = callers[c].g
                    /\ tasks'[s].pc = "start"
                    /\ callers[c].g \in activeSummaries
      ]_vars

\* a call for a group with buffered messages was just dropped: its task is running
C4_Witness ==
    \E g \in Groups :
        /\ last = Label("TriggerSummary", g, "busy")
        /\ \E s \in TasksOf(g) : tasks[s].pc = "llm" /\ tasks[s].snap.Count >= 1
        /\ count(g) >= 1

(* C5 as stated: after a dispatch that ends in success or in a benign skip the
   group's resident count is 0 and the claim is released. *)
C5_CountZeroAtRelease ==
    \A g \in Groups : \A o \in SuccessOrSkip :
        last = Label("Release", g, o) => (count(g) = 0 /\ g \notin activeSummaries)

(* C5, amended: after such a dispatch the claim is released, no message of the
   dispatch's snapshot is resident any more, and the resident messages are
   exactly the ones added after the dispatch's Clear; the count is 0 when
   none was added between the Clear and the release. *)
C5_ClearedThenReleased ==
    /\ \A s \in Slots :
         (tasks[s].pc = "release" /\ tasks[s].outcome \in SuccessOrSkip) =>
            LET g == tasks[s].g IN
            /\ g \in DOMAIN rooms
            /\ Range(Resident(rooms[g])) \cap Range(tasks[s].msgs) = {}
            /\ Resident(rooms[g]) = LastN(hist[g], rooms[g].capacity)
            /\ rooms[g].count = Min(Len(hist[g]), rooms[g].capacity)
            /\ Range(hist[g]) \cap Range(tasks[s].room0.messages) = {}
    /\ \A g \in Groups : \A o \in SuccessOrSkip :
         last = Label("Release", g, o) =>
            /\ g \notin activeSummaries
            /\ rooms[g].count = Min(Len(hist[g]), rooms[g].capacity)
            /\ Resident(rooms[g]) = LastN(hist[g], rooms[g].capacity)

\* a summary was sent, the buffer cleared and the claim released
C5_Witness ==
    \E g \in Groups :
        /\ last = Label("Release", g, "sent")
        /\ count(g) = 0
        /\ g \notin activeSummaries

(* C6 as stated: after a dispatch that ends in a hard summarizer error the
   group's buffer is what it was before the attempt. *)
C6_BufferAsBefore ==
    \A s \in Slots :
        (tasks[s].pc = "release" /\ tasks[s].outcome = "error") =>
            rooms[tasks[s].g] = tasks[s].room0

(* C6, amended: the dispatch itself changes nothing. After a hard summarizer
   error the buffer is the buffer before the attempt with the messages added
   meanwhile by the message handler; with none added it is unchanged. *)
C6_RetainedOnError ==
    \A s \in Slots :
        (tasks[s].pc = "release" /\ tasks[s].outcome = "error") =>
            /\ rooms[tasks[s].g] = ApplyAdds(tasks[s].room0, AddedSince(s))
            /\ AddedSince(s) = <<>> => rooms[tasks[s].g] = tasks[s].room0
            /\ rooms[tasks[s].g].lastSummaryTime = tasks[s].room0.lastSummaryTime

\* a hard error on a non-empty buffer, with a message added during the attempt
C6_Witness ==
    \E s \in Slots :
        /\ tasks[s].pc = "release" /\ tasks[s].outcome = "error"
        /\ tasks[s].room0.count >= 1
        /\ AddedSince(s) # <<>>

(* C7: a dispatch that observes the shutdown's cancellation ends there: it goes
   straight to the release without clearing the buffer, and its release frees
   the claim and starts or schedules nothing. *)
C7_CancelTerminal ==
    [][ \A s \in Slots :
          /\ (tasks'[s].outcome = "cancelled" /\ tasks[s].outcome # "cancelled") =>
                (tasks'[s].pc = "release" /\ UNCHANGED <<failedAt, mu, rooms, hist, activeSummaries>>)
          /\ (tasks[s].outcome = "cancelled" /\ tasks'[s] # tasks[s]) =>
                /\ tasks[s].pc = "release"
                /\ tasks'[s] = NoTask
                /\ activeSummaries' = activeSummaries \ {tasks[s].g}
                /\ \A s2 \in Slots \ {s} : tasks'[s2] = tasks[s2]
                /\ UNCHANGED <<failedAt, mu, rooms, hist, callers, cfg>>
      ]_vars

\* a cancelled dispatch has released its claim; its messages are still buffered
C7_Witness ==
    \E g \in Groups :
        /\ last = Label("Release", g, "cancelled")
        /\ count(g) >= 1
        /\ g \notin activeSummaries
        /\ TasksOf(g) = {}

(* C8: the dispatcher clears a buffer only after a success or a benign skip,
   never after a hard failure, and no snapshot handed to the summarizer holds
   a message that an earlier Clear of the group removed: its messages were all
   accepted after the group's last Clear. *)
C8_NoClearedContent ==
    \A s \in Slots :
        /\ tasks[s].pc = "clear" => tasks[s].outcome \in SuccessOrSkip
        /\ tasks[s].outcome \in {"error", "cancelled", "send_error"} =>
              tasks[s].pc = "release"
        /\ tasks[s].pc = "llm" =>
              /\ Range(tasks[s].msgs) \subseteq Range(hist[tasks[s].g])
              /\ tasks[s].snap.Count = Len(tasks[s].msgs)

\* a snapshot taken after an earlier Clear, whose messages still sit in the slots
C8_Witness ==
    \E s \in Slots :
        /\ tasks[s].pc = "llm"
        /\ tasks[s].room0.lastSummaryTime # 0
        /\ \E i \in DOMAIN tasks[s].room0.messages :
              /\ tasks[s].room0.messages[i] # ZeroMessage
              /\ tasks[s].room0.messages[i] \notin Range(tasks[s].msgs)

----------------------------------------------------------------------------
(* C19: the per-group data lock is never held while the external summarizer
   call is in progress. In every state where a task of a group waits for the
   summarizer, that task holds the room's lock neither as reader nor as
   writer, and the lock can be taken both exclusively (Add, Clear) and shared
   (ShouldSummarize), so an Add for the same group completes. *)
C19_LockFreeDuringSummarizer ==
    \A s \in Slots :
        tasks[s].pc = "llm" =>
            /\ Holder[s] \notin mu[tasks[s].g].readers
            /\ mu[tasks[s].g].writer # Holder[s]
            /\ CanLock(mu[tasks[s].g])
            /\ CanRLock(mu[tasks[s].g])

\* while a task waits for the summarizer, the handler has added a message to the
\* task's group and has evaluated the trigger policy for it
C19_Witness ==
    \E s \in Slots :
        /\ tasks[s].pc = "llm"
        /\ AddedSince(s) # <<>>
        /\ callers["msg"].pc = "trigger"
        /\ callers["msg"].g = tasks[s].g

----------------------------------------------------------------------------
(* C21: a group's capacity is fixed when its state is created, from the
   configuration current at that moment. No step changes the capacity of an
   existing group, neither a configuration reload nor a Clear nor an Add,
   and a group created by a step gets the buffer size configured then. *)
C21_CapacityFixedAtCreation ==
    [][/\ \A g \in DOMAIN rooms :
              g \in DOMAIN rooms' /\ rooms'[g].capacity = rooms[g].capacity
       /\ \A g \in DOMAIN rooms' \ DOMAIN rooms :
              rooms'[g].capacity = cfg.MaxBufferSize]_vars

\* the buffer size was changed after g1 was created; g1 was then cleared and
\* added to with its old capacity, and g2, created later, has the new one
C21_Witness ==
    /\ DOMAIN rooms = {"g1", "g2"}
    /\ rooms["g1"].capacity # rooms["g2"].capacity
    /\ rooms["g2"].capacity = cfg.MaxBufferSize
    /\ rooms["g1"].lastSummaryTime # 0
    /\ rooms["g1"].count >= 1
    /\ rooms["g2"].count >= 1

----------------------------------------------------------------------------
(* C22: single-flight is per group only. A triggerSummary call for group g is
   refused only when g's own claim is held; the claims of other groups never
   refuse it and are left as they are, so tasks of distinct groups are in
   flight at the same time. *)
C22_PerGroupOnly ==
    [][\A g \in Groups :
          /\ last' = Label("TriggerSummary", g, "busy") => g \in activeSummaries
          /\ last' = Label("TriggerSummary", g, "claimed") =>
                /\ g \notin activeSummaries
                /\ activeSummaries' = activeSummaries \cup {g}]_vars

\* the tasks of g1 and of g2 both wait for the summarizer
C22_Witness ==
    \E s, t \in Slots :
        /\ tasks[s].g = "g1" /\ tasks[s].pc = "llm"
        /\ tasks[t].g = "g2" /\ tasks[t].pc = "llm"
        /\ activeSummaries = {"g1", "g2"}

----------------------------------------------------------------------------
(* C23: retry on the next natural trigger. When a dispatch of group g ends in
   a hard summarizer error, the claim is released with the buffer retained;
   the next triggerSummary call for g then claims and starts a task, and the
   snapshot of a task started after the failure is taken over everything
   accepted since the last Clear, the messages of the failed attempt
   included, as far as the capacity holds them. *)
C23_RetryAfterError ==
    /\ [](\A g \in Groups :
            /\ last = Label("Release", g, "error") =>
                  /\ g \notin activeSummaries
                  /\ failedAt[g] >= 1
                  /\ Len(hist[g]) >= failedAt[g]
                  /\ count(g) >= 1
            /\ \A s \in TasksOf(g) :
                  (failedAt[g] > 0 /\ tasks[s].pc \in {"llm", "send", "clear"}) =>
                      /\ tasks[s].h0 >= failedAt[g]
                      /\ Len(hist[g]) >= tasks[s].h0
                      /\ tasks[s].msgs
                           = LastN(SubSeq(hist[g], 1, Min(tasks[s].h0, Len(hist[g]))),
                                   rooms[g].capacity))
    /\ [][\A g \in Groups :
            (failedAt[g] > 0 /\ g \notin activeSummaries
               /\ last'.op = "TriggerSummary" /\ last'.g = g) =>
                /\ last'.info = "claimed"
                /\ \E c \in Callers : callers'[c].pc = "spawn" /\ callers'[c].g = g]_vars

\* after a failed attempt, a new task of the group waits for the summarizer with a
\* snapshot that holds the newest message the failed attempt had seen
C23_Witness ==
    \E s \in Slots :
        /\ tasks[s].pc = "llm"
        /\ failedAt[tasks[s].g] > 0
        /\ Len(hist[tasks[s].g]) >= failedAt[tasks[s].g]
        /\ hist[tasks[s].g][failedAt[tasks[s].g]] \in Range(tasks[s].msgs)

----------------------------------------------------------------------------
(* C24: the summarizer call is time-bounded. A task that waits for the
   summarizer ends its wait also when the summarizer never responds and the
   bot is not shut down, so that its claim is released. *)
C24_SummarizerTimeBounded ==
    \A s \in Slots : (tasks[s].pc = "llm") ~> (tasks[s].pc # "llm")

----------------------------------------------------------------------------
(* C25, as stated: on shutdown every in-flight task observes the cancellation
   and ends with its buffer retained: no task clears its group's buffer
   between the cancellation and the return of Stop. *)
C25_AllRetainOnShutdown ==
    [][\A s \in Slots :
          (ctxCancelled /\ stopPc # "stopped" /\ tasks[s].pc = "clear")
              => tasks'[s].pc # "release"]_vars

(* C25, amended: on shutdown every in-flight task ends and releases its claim;
   a task that observes the cancellation ends without Clear, while a task whose
   summarizer call returns a result completes as usual; Stop returns only
   when no task is left, and it does return. *)
C25_ShutdownDrains ==
    /\ [](\A s \in Slots : tasks[s].outcome = "cancelled" => tasks[s].pc = "release")
    /\ [][\A s \in Slots :
            (tasks[s].pc = "release" /\ tasks'[s].pc = "free") =>
                /\ tasks[s].g \notin activeSummaries'
                /\ tasks[s].outcome = "cancelled" => rooms' = rooms]_vars
    /\ [][(stopPc # "stopped" /\ stopPc' = "stopped") =>
            /\ wg = 0
            /\ \A s \in Slots : tasks[s].pc = "free"]_vars
    /\ \A s \in Slots : (ctxCancelled /\ tasks[s].pc # "free") ~> (tasks[s].pc = "free")
    /\ ctxCancelled ~> (stopPc = "stopped")

\* Stop has returned after a task that was waiting for the summarizer when the
\* context was cancelled ended on the cancellation
C25_Witness ==
    /\ stopPc = "stopped"
    /\ \E g \in Groups : last = Label("Release", g, "cancelled") /\ count(g) >= 1

----------------------------------------------------------------------------
(* C26: the message handler evaluates the trigger policy after every Add, with
   the keyword flag computed from the text of the message it has just added;
   on every timer tick the timer reads all group keys of the store and
   evaluates the policy for each of them with the keyword flag false; and
   both reach activeSummaries only through triggerSummary's LoadOrStore. *)
C26_TwoProducersOneEntry ==
    /\ [][(callers["msg"].pc = "idle" /\ callers'["msg"] # callers["msg"]) =>
            /\ callers'["msg"].pc = "eval"
            /\ LET g == callers'["msg"].g IN
                 hist'[g] # hist[g] =>
                    callers'["msg"].text = hist'[g][Len(hist'[g])].Content.Text]_vars
    /\ [][(callers["msg"].pc = "eval" /\ callers'["msg"] # callers["msg"]) =>
            LET c == callers["msg"] IN
            /\ rooms' = rooms
            /\ callers'["msg"].pc =
                 IF ShouldSummarize(rooms, c.g, checkKeywordTrigger(c.text), cfg, now)
                 THEN "trigger" ELSE "idle"]_vars
    /\ [][(callers["timer"].pc = "select" /\ callers'["timer"].pc = "sweep") =>
            /\ ticker.C
            /\ callers'["timer"].todo = DOMAIN rooms]_vars
    /\ [][(callers["timer"].pc = "sweep" /\ callers'["timer"] # callers["timer"]) =>
            LET c == callers["timer"] IN
            IF c.todo = {} THEN callers'["timer"].pc = "select"
            ELSE \E topic \in c.todo :
                   /\ callers'["timer"].todo = c.todo \ {topic}
                   /\ callers'["timer"].g = topic
                   /\ callers'["timer"].pc =
                        IF ShouldSummarize(rooms, topic, FALSE, cfg, now)
                        THEN "trigger" ELSE "sweep"]_vars
    /\ [][\A c \in Callers :
            (callers[c].pc = "trigger" /\ callers'[c] # callers[c]) =>
                /\ last' = Label("TriggerSummary", callers[c].g,
                                 IF callers[c].g \in activeSummaries THEN "busy" ELSE "claimed")
                /\ activeSummaries' = activeSummaries \cup {callers[c].g}
                /\ callers'[c].todo = callers[c].todo]_vars
    /\ [][activeSummaries' \subseteq activeSummaries
            \/ \E c \in Callers : callers[c].pc = "trigger" /\ callers'[c].pc = "spawn"]_vars
    /\ [][\A s \in Slots : (tasks[s].pc = "free" /\ tasks'[s].pc # "free") =>
            \E c \in Callers : /\ callers[c].pc = "spawn"
                               /\ callers'[c].pc = Ret(c)
                               /\ tasks'[s].g = callers[c].g]_vars

\* the handler, after the Add of a keyword message, and the timer, in its sweep,
\* are both about to call triggerSummary for the same group
C26_Witness ==
    /\ callers["msg"].pc = "trigger"
    /\ callers["timer"].pc = "trigger"
    /\ callers["msg"].g = callers["timer"].g
    /\ checkKeywordTrigger(callers["msg"].text)

----------------------------------------------------------------------------
(* C27: in a snapshot each resident text message contributes exactly one
   content item and each resident media message exactly two, so the number of
   content items is the number of text messages plus twice the number of
   media messages. *)
C27_ItemsPerMessage ==
    \A g \in DOMAIN rooms :
        LET w == Resident(rooms[g])
            texts == {i \in DOMAIN w : w[i].Content.Type = "text"}
            media == {i \in DOMAIN w : w[i].Content.Type \notin {"text", "nil"}}
        IN Len(GetSnapshot(rooms, g).Contents) = Cardinality(texts) + 2 * Cardinality(media)

----------------------------------------------------------------------------
(* C28: the write cursor stays within 0..capacity-1 and the count within
   0..capacity; in a full buffer the slot at the write cursor holds the oldest
   resident message, and Add of a non-resident id evicts that message and no
   other, writing the new message into its slot. *)
C28_CursorAndEviction ==
    \A g \in DOMAIN rooms :
        LET room == rooms[g] IN
        /\ 0 <= room.writeIndex /\ room.writeIndex < room.capacity
        /\ 0 <= room.count /\ room.count <= room.capacity
        /\ room.count = room.capacity =>
             LET oldest == room.messages[room.writeIndex] IN
             /\ oldest = Arrived(g)[1]
             /\ oldest = Resident(room)[1]
             /\ \A in \in BufInbound :
                  in[1] \notin room.messageIDs =>
                     LET msg == Message(in[1], stamp + 1, in[2], in[3])
                         after == Add(rooms, g, msg, cfg.MaxBufferSize)[g]
                     IN /\ after.messages[room.writeIndex] = msg
                        /\ \A i \in DOMAIN room.messages :
                              i # room.writeIndex => after.messages[i] = room.messages[i]
                        /\ after.messageIDs = (room.messageIDs \ {oldest.ID}) \cup {msg.ID}
                        /\ Resident(after) = Tail(Resident(room)) \o <<msg>>
                        /\ after.writeIndex = (room.writeIndex + 1) % room.capacity
                        /\ after.count = room.capacity

\* a full buffer of capacity 2 or more whose cursor has wrapped past slot 0
\* after an eviction, with a non-resident id left to add
C28_Witness ==
    \E g \in DOMAIN rooms :
        /\ last = Label("Add", g, "accepted")
        /\ rooms[g].capacity >= 2
        /\ rooms[g].count = rooms[g].capacity
        /\ rooms[g].writeIndex # 0
        /\ Len(hist[g]) > rooms[g].capacity
        /\ \E in \in BufInbound : in[1] \notin rooms[g].messageIDs

----------------------------------------------------------------------------
(* C29: whenever the message handler evaluates the trigger policy with the
   keyword detected, the group's count is at least 1 at that evaluation, also
   when a summarization task of the same group finishes and clears between
   the handler's Add and its ShouldSummarize. *)
C29_KeywordImpliesNonEmpty ==
    [][(/\ callers["msg"].pc = "eval"
        /\ callers'["msg"] # callers["msg"]
        /\ checkKeywordTrigger(callers["msg"].text))
          => count(callers["msg"].g) >= 1]_vars

----------------------------------------------------------------------------
(* C30: the snapshot's metadata matches the resident messages: Count is the
   resident count, FirstMsgTime and LastMsgTime are the timestamps of the
   oldest and the newest resident message, Participants is the set of their
   senders; for a group with count 0 and for an unknown group the snapshot is
   empty, with no timestamps and no contents. *)
C30_SnapshotMetadata ==
    \A g \in Groups :
        LET snap == GetSnapshot(rooms, g) IN
        IF g \notin DOMAIN rooms \/ count(g) = 0
        THEN /\ snap.Count = 0
             /\ snap.FirstMsgTime = 0 /\ snap.LastMsgTime = 0
             /\ snap.Participants = {}
             /\ snap.Contents = <<>>
        ELSE LET a == Arrived(g) IN
             /\ snap.Count = rooms[g].count
             /\ snap.Count = Len(a)
             /\ snap.FirstMsgTime = a[1].Timestamp
             /\ snap.LastMsgTime = a[Len(a)].Timestamp
             /\ \A i \in DOMAIN a : /\ snap.FirstMsgTime <= a[i].Timestamp
                                    /\ a[i].Timestamp <= snap.LastMsgTime
             /\ snap.Participants = {a[i].Sender : i \in DOMAIN a}

\* a snapshot of a full, wrapped buffer with two senders, next to an unknown group
C30_Witness ==
    \E g \in DOMAIN rooms :
        /\ rooms[g].capacity >= 2
        /\ rooms[g].count = rooms[g].capacity
        /\ rooms[g].writeIndex # 0
        /\ Len(hist[g]) > rooms[g].capacity
        /\ Cardinality(GetSnapshot(rooms, g).Participants) = 2
        /\ GetSnapshot(rooms, g).FirstMsgTime < GetSnapshot(rooms, g).LastMsgTime
        /\ \E u \in Groups \ DOMAIN rooms : GetSnapshot(rooms, u) = EmptySnapshot

----------------------------------------------------------------------------
(* C31: no message is discarded unsummarized by a dispatch: every message that
   the Clear ending a dispatch removes was contained in the snapshot handed to
   the summarizer for that dispatch, so a message added while the
   summarization is in flight is still resident afterwards. *)
C31_ClearOnlySummarized ==
    [][\A s \in Slots :
          (tasks[s].pc = "clear" /\ tasks'[s].pc = "release"
             /\ tasks[s].g \in DOMAIN rooms) =>
              Range(Resident(rooms[tasks[s].g])) \subseteq Range(tasks[s].msgs)]_vars

----------------------------------------------------------------------------
\* the ids of the messages of group g that are resident according to the history
ArrivedIds(g) == {Arrived(g)[i].ID : i \in DOMAIN Arrived(g)}

(* C32: de-duplication covers only the resident ids. Add of an id that is not
   resident, also one that was resident before and has been evicted by
   wraparound or removed by Clear, is accepted: the count grows or the oldest
   message is evicted, and the message is the last of the snapshot. *)
C32_DedupResidentOnly ==
    \A g \in DOMAIN rooms : \A in \in BufInbound :
        in[1] \notin ArrivedIds(g) =>
            LET room == rooms[g]
                msg == Message(in[1], stamp + 1, in[2], in[3])
                after == Add(rooms, g, msg, cfg.MaxBufferSize)
                snap == GetSnapshot(after, g)
            IN /\ msg.ID \in after[g].messageIDs
               /\ Resident(after[g]) =
                    (IF room.count < room.capacity THEN Resident(room)
                     ELSE Tail(Resident(room))) \o <<msg>>
               /\ after[g].count = Min(room.count + 1, room.capacity)
               /\ snap.Count = after[g].count
               /\ snap.LastMsgTime = msg.Timestamp
               /\ snap.Contents = ContentsOf(Resident(after[g]))

\* an id that wraparound had evicted was added again and accepted: it is the
\* newest resident message, and its earlier copy is not resident
C32_Witness ==
    \E g \in DOMAIN rooms :
        /\ last = Label("Add", g, "accepted")
        /\ Len(hist[g]) > rooms[g].capacity
        /\ \E i \in 1..(Len(hist[g]) - rooms[g].capacity) :
              hist[g][i].ID = hist[g][Len(hist[g])].ID
        /\ Resident(rooms[g])[rooms[g].count] = hist[g][Len(hist[g])]

\* an id that Clear had removed was added again and accepted: its earlier copy
\* still lies in a slot outside the resident window
C32_ClearedWitness ==
    \E g \in DOMAIN rooms :
        /\ last = Label("Add", g, "accepted")
        /\ rooms[g].lastSummaryTime # 0
        /\ rooms[g].count >= 1
        /\ LET newest == Resident(rooms[g])[rooms[g].count] IN
             \E i \in DOMAIN rooms[g].messages :
                /\ rooms[g].messages[i].ID = newest.ID
                /\ rooms[g].messages[i].Timestamp < newest.Timestamp

----------------------------------------------------------------------------
\* the slots of a room that lie outside the window GetSnapshot walks
StaleSlots(room) ==
    {i \in DOMAIN room.messages :
        /\ room.messages[i] # ZeroMessage
        /\ \A k \in 1..room.count : (StartIndex(room) + k - 1) % room.capacity # i}

(* C33: Clear leaves the old messages in the slots, and they never leak: the
   snapshot holds only messages added after the last Clear, and every resident
   message keeps its id in the seen ids, also after the buffer has refilled
   and evicted. *)
C33_NoLeakAfterClear ==
    \A g \in DOMAIN rooms :
        LET room == rooms[g]
            snap == GetSnapshot(rooms, g)
        IN /\ Range(SnapshotMsgs(rooms, g)) \subseteq Range(hist[g])
           /\ SnapshotMsgs(rooms, g) = Arrived(g)
           /\ snap.Contents = ContentsOf(Arrived(g))
           /\ snap.Count = Len(Arrived(g))
           /\ \A i \in StaleSlots(room) :
                 room.messages[i] \notin Range(Arrived(g)) =>
                    room.messages[i] \notin Range(SnapshotMsgs(rooms, g))
           /\ \A k \in 1..room.count : Resident(room)[k].ID \in room.messageIDs
           /\ room.messageIDs = ArrivedIds(g)

\* after a Clear the buffer took new messages while a message from before the
\* Clear still lay in a slot
C33_Witness ==
    \E g \in DOMAIN rooms :
        /\ last = Label("Add", g, "accepted")
        /\ rooms[g].lastSummaryTime # 0
        /\ rooms[g].capacity >= 2
        /\ rooms[g].count >= 1
        /\ \E i \in StaleSlots(rooms[g]) : rooms[g].messages[i] \notin Range(hist[g])

\* after a Clear the buffer has refilled and evicted
C33_RefilledWitness ==
    \E g \in DOMAIN rooms :
        /\ last = Label("Add", g, "accepted")
        /\ rooms[g].lastSummaryTime # 0
        /\ rooms[g].capacity >= 2
        /\ rooms[g].count = rooms[g].capacity
        /\ Len(hist[g]) > rooms[g].capacity

----------------------------------------------------------------------------
(* C34: if the summarizer succeeds and sendToSelf returns an error, the task
   does not clear: the group's buffer is retained, changed only by the Adds
   made since the snapshot, and the claim is released, as for a hard
   summarizer error. *)
C34_SendErrorRetains ==
    /\ [](\A s \in Slots :
            tasks[s].outcome = "send_error" =>
                /\ tasks[s].pc = "release"
                /\ tasks[s].g \in activeSummaries
                /\ Len(hist[tasks[s].g]) >= tasks[s].h0
                /\ rooms[tasks[s].g] = ApplyAdds(tasks[s].room0, AddedSince(s))
                /\ Range(tasks[s].msgs) \subseteq Range(hist[tasks[s].g]))
    /\ [][\A s \in Slots :
            /\ (tasks[s].pc = "send" /\ tasks'[s].outcome = "send_error") =>
                  (tasks'[s].pc = "release" /\ UNCHANGED <<rooms, hist, activeSummaries>>)
            /\ (tasks[s].outcome = "send_error" /\ tasks'[s] # tasks[s]) =>
                  /\ tasks'[s] = NoTask
                  /\ activeSummaries' = activeSummaries \ {tasks[s].g}
                  /\ last' = Label("Release", tasks[s].g, "send_error")
                  /\ UNCHANGED <<rooms, hist>>]_vars

\* a dispatch whose delivery failed has released its claim; its messages are
\* still buffered
C34_Witness ==
    \E g \in Groups :
        /\ last = Label("Release", g, "send_error")
        /\ count(g) >= 1
        /\ g \notin activeSummaries
        /\ TasksOf(g) = {}

----------------------------------------------------------------------------
(* C35: after Stop the timer goroutine receives the stop signal and
   terminates, so the timer claims no dispatch once Stop has returned, also
   when Stop was called while the timer was in the middle of a sweep. *)
C35_NoTimerDispatchAfterStop ==
    [][(stopPc = "stopped" /\ callers["timer"].pc = "trigger")
          => callers'["timer"].pc # "spawn"]_vars

----------------------------------------------------------------------------
(* C36: once Stop has returned, no summarization task is running and none is
   started, also when a message is handled concurrently with or after Stop: a
   trigger that has not claimed before the shutdown never becomes a task. *)
C36_NoTaskAfterStop ==
    stopPc = "stopped" => \A s \in Slots : tasks[s].pc = "free"

----------------------------------------------------------------------------
(* C37: the count never exceeds the capacity, so a group whose capacity is
   smaller than min_messages never triggers at all, and a group whose capacity
   is smaller than the volume threshold never triggers by volume: without the
   keyword such a group triggers through the interval rule only. *)
C37_SmallCapacityNeverTriggers ==
    \A g \in DOMAIN rooms :
        /\ rooms[g].count <= rooms[g].capacity
        /\ Evaluated(g) =>
             /\ rooms[g].capacity < cfg.MinMessagesForSummary => ~fired
             /\ (cfg.MessageCount > 0 /\ rooms[g].capacity < cfg.MessageCount) =>
                   /\ ~VolumeRule(g)
                   /\ (fired /\ ~keywordDetected) =>
                         /\ cfg.IntervalMinutes > 0
                         /\ rooms[g].lastSummaryTime # 0
                         /\ now - rooms[g].lastSummaryTime >= cfg.IntervalMinutes

\* a full group of capacity 1 that has taken several messages was evaluated
\* without the keyword under a volume threshold of 2 and no floor, and did not fire
C37_Witness ==
    \E g \in DOMAIN rooms :
        /\ Evaluated(g)
        /\ ~keywordDetected
        /\ rooms[g].capacity = 1
        /\ rooms[g].count = 1
        /\ Len(hist[g]) >= 3
        /\ cfg.MessageCount = 2
        /\ cfg.MinMessagesForSummary = 0
        /\ ~fired

\* a full group of capacity 1 under a floor of 2 was evaluated with the keyword
\* and did not fire
C37_FloorWitness ==
    \E g \in DOMAIN rooms :
        /\ Evaluated(g)
        /\ keywordDetected
        /\ rooms[g].capacity = 1
        /\ Len(hist[g]) >= 3
        /\ cfg.MinMessagesForSummary = 2
        /\ ~fired

----------------------------------------------------------------------------
(* C38: operations on a group key that has never received an Add do not
   create it and change nothing: ShouldSummarize returns false, GetSnapshot
   returns an empty snapshot of count 0, Clear is a no-op that sets no last
   flush time, and the set of group keys stays as it is. *)
C38_UnknownGroupNoEffect ==
    /\ [](\A g \in Groups \ DOMAIN rooms :
            /\ \A kw \in BOOLEAN : ~ShouldSummarize(rooms, g, kw, cfg, now)
            /\ GetSnapshot(rooms, g) = EmptySnapshot
            /\ GetSnapshot(rooms, g).Count = 0
            /\ Clear(rooms, g, now) = rooms
            /\ GetRoomTopics(Clear(rooms, g, now)) = GetRoomTopics(rooms)
            /\ g \notin GetRoomTopics(rooms)
            /\ hist[g] = <<>>)
    /\ [][\A g \in Groups :
            (last' = Label("Clear", g, "unknown") /\ last' # last) =>
                /\ g \notin DOMAIN rooms
                /\ rooms' = rooms
                /\ GetRoomTopics(rooms') = GetRoomTopics(rooms)]_vars

\* Clear was called for a group that never received an Add, next to a known group
C38_Witness ==
    \E g \in Groups :
        /\ last = Label("Clear", g, "unknown")
        /\ g \notin DOMAIN rooms
        /\ \E k \in DOMAIN rooms : rooms[k].count >= 1

----------------------------------------------------------------------------
(* C39: a snapshot built while Add and Clear are called on the same group is
   atomic with respect to them: when GetSnapshot has visited its messages, its
   Count is the number of messages it emitted, and it is the snapshot of the
   room as it stood when the read lock was taken, a room that no Add and no
   Clear was in the middle of changing and that has not changed since. *)
C39_SnapshotAtomic ==
    \A s \in Slots :
        /\ tasks[s].pc \in {"snap_count", "snap_start", "snap_loop", "snap_return"} =>
              /\ mu[tasks[s].g].writer = ""
              /\ callers["msg"].pc \in {"idle", "add_lock"}
              /\ callers["timer"].pc \in {"off", "clr_lock"}
              /\ rooms[tasks[s].g] = tasks[s].room0
        /\ tasks[s].pc = "snap_return" =>
              LET g == tasks[s].g
                  snap == tasks[s].snap
              IN /\ snap.Count = Len(tasks[s].msgs)
                 /\ snap.Contents = ContentsOf(tasks[s].msgs)
                 /\ snap = RoomSnapshot(tasks[s].room0)
                 /\ tasks[s].msgs = Resident(tasks[s].room0)
                 /\ tasks[s].msgs = Arrived(g)
                 /\ tasks[s].room0.messageIDs = ArrivedIds(g)
                 /\ tasks[s].room0.writeIndex = Len(hist[g]) % tasks[s].room0.capacity

\* GetSnapshot has emitted the two messages of a full, wrapped buffer while an
\* Add and a Clear of the same group wait for the lock
C39_Witness ==
    \E s \in Slots :
        /\ tasks[s].pc = "snap_return"
        /\ Len(tasks[s].msgs) = 2
        /\ tasks[s].room0.writeIndex # 0
        /\ Len(hist[tasks[s].g]) > tasks[s].room0.capacity
        /\ callers["timer"].pc = "clr_lock"
        /\ callers["timer"].g = tasks[s].g

\* GetSnapshot has emitted its messages while an Add of the same group waits
\* for the lock
C39_AddWaitsWitness ==
    \E s \in Slots :
        /\ tasks[s].pc = "snap_return"
        /\ Len(tasks[s].msgs) >= 1
        /\ callers["msg"].pc = "add_lock"
        /\ callers["msg"].g = tasks[s].g

====
